---- MODULE Spec2Model ----
(***************************************************************************)
(* ServerrSage: extraction of a docker-compose manifest, rewriting of its  *)
(* volume paths, and the provisioning workflows that drive nginx, certbot, *)
(* docker compose and the Cloudflare DNS API.                              *)
(*                                                                         *)
(* A Python str is a sequence of one-character strings; None is a value    *)
(* that is no such sequence.                                               *)
(***************************************************************************)
EXTENDS Integers, Sequences, FiniteSets, TLC

VARIABLES
    m,                  \* SpecRewrite: the manifest text handed to rewrite_volume_paths
    s,                  \* SpecRewrite: the image_name argument (None when omitted)
    once,               \* SpecRewrite: rewrite_volume_paths(m, s)
    twice,              \* SpecRewrite: rewrite_volume_paths(once, s)
    rw,                 \* SpecRewrite: position of the driver
    image,              \* --image: the service the program is run for
    wf,                 \* the workflow of the current run
    pc,                 \* the call the workflow makes next
    runs,               \* invocations of the program so far
    completed,          \* the runs that returned with every call successful
    log,                \* the calls of the current run, in order, each with its result
    ret,                \* how the workflow function ended: None, or an exception raised
    ipaddress,          \* --ipaddress of the current run
    cloudflare_api_key, \* the Cloudflare key of the current run
    html,               \* get_docker_compose: the fetched page
    docker_compose_yml, \* the manifest text the workflow carries
    created,            \* what ensure_docker_directories returned
    nginx_config,       \* what generate_nginx_config returned
    requests,           \* the Cloudflare API requests of the current run
    dirs,               \* the directories that exist
    files,              \* the files under ~/Docker: path -> content
    sites_available,    \* /etc/nginx/sites-available: filename -> content
    sites_enabled,      \* /etc/nginx/sites-enabled: filenames linked
    tmp_files,          \* the files under /tmp
    sudo_log,           \* the privileged commands the last setup_nginx call executed
    dns_records,        \* the type-A records of the zone
    docker_up,          \* the services docker compose brought up
    document,           \* SpecExtract: the html_content handed to extract_docker_compose
    hint,               \* SpecExtract: the service_name argument (None when omitted)
    extracted,          \* SpecExtract: extract_docker_compose(document, hint)
    cleaned_compose,    \* SpecExtract: what get_docker_compose returns for it
    xp,                 \* SpecExtract: position of the driver
    yml,                \* SpecEnsure: the manifest handed to ensure_docker_directories
    present,            \* SpecEnsure: the directories that exist before the call
    occupied,           \* SpecEnsure: the paths that exist as files
    refused,            \* SpecEnsure: the entries whose mkdir raises PermissionError
    hidden,             \* SpecEnsure: the entries whose exists() raises PermissionError
    ensured,            \* SpecEnsure: the directories after the call and the list returned
    ep,                 \* SpecEnsure: position of the driver
    op,                 \* SpecRuntime: the container-runtime operation called ("none" before the call)
    invoked,            \* SpecRuntime: whether the call ran docker compose
    returned,           \* SpecRuntime: what the call returned
    reply,              \* SpecGenerate: the text of the response handed to the extraction of generate_nginx_config
    config,             \* SpecGenerate: what generate_nginx_config returned
    gp                  \* SpecGenerate: "ready" before the call, "done" after it

vars == <<m, s, once, twice, rw, image, wf, pc, runs, completed, log, ret, ipaddress, cloudflare_api_key,
          html, docker_compose_yml, created, nginx_config, requests, dirs, files,
          sites_available, sites_enabled, tmp_files, sudo_log, dns_records, docker_up,
          document, hint, extracted, cleaned_compose, xp,
          yml, present, occupied, refused, hidden, ensured, ep,
          op, invoked, returned,
          reply, config, gp>>

\* ------------------------------------------------------------------ text

None == <<"None">>

\* The characters Python's \s matches, among those the model's texts use.
WS == {" ", "\t", "\n"}

NL == "\n"

StartsWith(str, p) == Len(str) >= Len(p) /\ SubSeq(str, 1, Len(p)) = p

Contains(str, p) == \E i \in 1..(Len(str) - Len(p) + 1) : SubSeq(str, i, i + Len(p) - 1) = p

\* str.split(c): the pieces between the occurrences of c (never empty).
RECURSIVE Split(_, _)
Split(str, c) ==
    IF \A i \in 1..Len(str) : str[i] # c
    THEN <<str>>
    ELSE LET k == CHOOSE i \in 1..Len(str) : str[i] = c /\ \A j \in 1..(i - 1) : str[j] # c
         IN  <<SubSeq(str, 1, k - 1)>> \o Split(SubSeq(str, k + 1, Len(str)), c)

\* c.join(parts)
RECURSIVE Join(_, _)
Join(parts, c) ==
    IF Len(parts) = 0 THEN <<>>
    ELSE IF Len(parts) = 1 THEN parts[1]
    ELSE parts[1] \o <<c>> \o Join(Tail(parts), c)

\* str.strip(chars)
RECURSIVE LStrip(_, _)
LStrip(str, chars) ==
    IF Len(str) > 0 /\ str[1] \in chars THEN LStrip(Tail(str), chars) ELSE str

RECURSIVE RStrip(_, _)
RStrip(str, chars) ==
    IF Len(str) > 0 /\ str[Len(str)] \in chars
    THEN RStrip(SubSeq(str, 1, Len(str) - 1), chars) ELSE str

Strip(str, chars) == RStrip(LStrip(str, chars), chars)

\* The length of the longest prefix of str[from..] whose characters avoid `stop`.
RECURSIVE RunLen(_, _, _)
RunLen(str, from, stop) ==
    IF from > Len(str) \/ str[from] \in stop THEN 0
    ELSE 1 + RunLen(str, from + 1, stop)

\* The length of the longest prefix of str[from..] whose characters are in `set`.
RECURSIVE SpanLen(_, _, _)
SpanLen(str, from, set) ==
    IF from > Len(str) \/ str[from] \notin set THEN 0
    ELSE 1 + SpanLen(str, from + 1, set)

\* True iff str has the literal p at position i.
At(str, i, p) == i + Len(p) - 1 <= Len(str) /\ SubSeq(str, i, i + Len(p) - 1) = p

\* The first index >= from at which str has the literal p; 0 when there is none.
FirstAt(str, from, p) ==
    LET hits == {i \in from..(Len(str) - Len(p) + 1) : At(str, i, p)}
    IN  IF hits = {} THEN 0 ELSE CHOOSE i \in hits : \A j \in hits : i <= j

\* re.sub(p, rep, str) for a literal p: leftmost occurrences, left to right.
RECURSIVE Replace(_, _, _)
Replace(str, p, rep) ==
    LET k == FirstAt(str, 1, p)
    IN  IF k = 0 THEN str
        ELSE SubSeq(str, 1, k - 1) \o rep \o Replace(SubSeq(str, k + Len(p), Len(str)), p, rep)

UpperToLower ==
    [c \in {"A", "B", "C", "D", "E", "F", "G", "H", "I", "J", "K", "L", "M", "N", "O", "P",
            "Q", "R", "S", "T", "U", "V", "W", "X", "Y", "Z"} |->
        CASE c = "A" -> "a" [] c = "B" -> "b" [] c = "C" -> "c" [] c = "D" -> "d"
          [] c = "E" -> "e" [] c = "F" -> "f" [] c = "G" -> "g" [] c = "H" -> "h"
          [] c = "I" -> "i" [] c = "J" -> "j" [] c = "K" -> "k" [] c = "L" -> "l"
          [] c = "M" -> "m" [] c = "N" -> "n" [] c = "O" -> "o" [] c = "P" -> "p"
          [] c = "Q" -> "q" [] c = "R" -> "r" [] c = "S" -> "s" [] c = "T" -> "t"
          [] c = "U" -> "u" [] c = "V" -> "v" [] c = "W" -> "w" [] c = "X" -> "x"
          [] c = "Y" -> "y" [] c = "Z" -> "z"]

\* str.lower()
Lower(str) ==
    [i \in 1..Len(str) |-> IF str[i] \in DOMAIN UpperToLower THEN UpperToLower[str[i]] ELSE str[i]]

\* [a-zA-Z] and \w
Letters == DOMAIN UpperToLower \cup {UpperToLower[c] : c \in DOMAIN UpperToLower}

WordChars == Letters \cup {"0", "1", "2", "3", "4", "5", "6", "7", "8", "9", "_"}

\* ------------------------------------------------------- literal strings

kServices == <<"s", "e", "r", "v", "i", "c", "e", "s", ":">>
kImage == <<"i", "m", "a", "g", "e", ":">>
kLscr == <<"l", "s", "c", "r", ".", "i", "o", "/">>
kLinuxserver == <<"l", "i", "n", "u", "x", "s", "e", "r", "v", "e", "r", "/">>
kDockerRoot == <<"~", "/", "D", "o", "c", "k", "e", "r", "/">>
kData == <<"d", "a", "t", "a">>
kApp == <<"a", "p", "p">>

\* ------------------------------------------------- dockerFunc.py: rewrite

\* extract_target_directory(container_path)
extract_target_directory(container_path) ==
    LET path_parts == Split(Strip(container_path, {"/"}), "/")
    IN  IF path_parts = <<>> \/ path_parts = << <<>> >>
        THEN kData
        ELSE path_parts[Len(path_parts)]

\* re.search(r'image:\s*[\'"]?(?:lscr\.io/)?linuxserver/([^:\s\'"]+)', text)
\* tried at position i: the captured group, or <<>> when there is no match at i.
image_match_at(text, i) ==
    IF ~At(text, i, kImage) THEN <<>>
    ELSE LET a == i + Len(kImage) + SpanLen(text, i + Len(kImage), WS)
             b == IF a <= Len(text) /\ text[a] \in {"'", "\""} THEN a + 1 ELSE a
             c == IF At(text, b, kLscr) THEN b + Len(kLscr) ELSE b
         IN  IF ~At(text, c, kLinuxserver) THEN <<>>
             ELSE LET d == c + Len(kLinuxserver)
                      n == RunLen(text, d, WS \cup {":", "'", "\""})
                  IN  SubSeq(text, d, d + n - 1)

\* The loop over lines that extract_image_name_from_text and extract_service_name
\* share: the key on the line after a line that contains 'services:', from line i
\* on; <<>> when no line qualifies.
RECURSIVE service_key_from(_, _)
service_key_from(lines, i) ==
    IF i > Len(lines) THEN <<>>
    ELSE IF Contains(lines[i], kServices) /\ i + 1 <= Len(lines)
    THEN LET next_line == Strip(lines[i + 1], WS)
             usable == Contains(next_line, <<":">>) /\ ~StartsWith(next_line, <<"-">>)
             service_name == IF usable THEN Strip(Split(next_line, ":")[1], WS) ELSE <<>>
         IN  IF usable /\ service_name # <<>> /\ ~StartsWith(service_name, <<"#">>)
             THEN service_name
             ELSE service_key_from(lines, i + 1)
    ELSE service_key_from(lines, i + 1)

\* extract_image_name_from_text(compose_content)
extract_image_name_from_text(compose_content) ==
    LET hits == {i \in 1..Len(compose_content) : image_match_at(compose_content, i) # <<>>}
        key == service_key_from(Split(compose_content, NL), 1)
    IN  IF hits # {}
        THEN image_match_at(compose_content, CHOOSE i \in hits : \A j \in hits : i <= j)
        ELSE IF key # <<>> THEN key
        ELSE kApp

\* re.match(r'^(\s+- )(/[^:]+):(/[^:\s]+)(.*)$', line): the four groups.
volume_match(line) ==
    LET n == SpanLen(line, 1, WS)                 \* \s+ : the leading whitespace
        p == n + 3                                \* where the host path starts
        h == RunLen(line, p + 1, {":"})           \* [^:]+
        q == p + 1 + h                            \* the colon after the host path
        c == RunLen(line, q + 2, WS \cup {":"})   \* [^:\s]+
        ok == /\ n >= 1
              /\ At(line, n + 1, <<"-", " ">>)
              /\ At(line, p, <<"/">>)
              /\ h >= 1
              /\ At(line, q, <<":", "/">>)
              /\ c >= 1
    IN  IF ok
        THEN [matched |-> TRUE,
              indent |-> SubSeq(line, 1, n + 2),
              host_path |-> SubSeq(line, p, q - 1),
              container_path |-> SubSeq(line, q + 1, q + 1 + c),
              rest |-> SubSeq(line, q + 2 + c, Len(line))]
        ELSE [matched |-> FALSE, indent |-> <<>>, host_path |-> <<>>,
              container_path |-> <<>>, rest |-> <<>>]

\* A variant that mirrors the host path under an absolute Docker root.
rewrite_line_mirror(line, image_name) ==
    LET vm == volume_match(line)
    IN  IF vm.matched
        THEN vm.indent \o <<"/", "D", "o", "c", "k", "e", "r", "/">> \o image_name
                 \o vm.host_path \o <<":">> \o vm.container_path \o vm.rest
        ELSE line

\* A variant that names the directory after the host path's last segment.
rewrite_line_hostleaf(line, image_name) ==
    LET vm == volume_match(line)
    IN  IF vm.matched
        THEN vm.indent \o kDockerRoot \o image_name \o <<"/">>
                 \o extract_target_directory(vm.host_path)
                 \o <<":">> \o vm.container_path \o vm.rest
        ELSE line

\* A variant whose pattern accepts any host side, path-like or not.
rewrite_line_anyhost(line, image_name) ==
    LET n == SpanLen(line, 1, WS)
        slashed == IF Len(line) < n + 3 THEN line
                   ELSE SubSeq(line, 1, n + 2) \o <<"/">> \o SubSeq(line, n + 3, Len(line))
        vm == IF volume_match(line).matched THEN volume_match(line) ELSE volume_match(slashed)
    IN  IF vm.matched
        THEN vm.indent \o kDockerRoot \o image_name \o <<"/">>
                 \o extract_target_directory(vm.container_path)
                 \o <<":">> \o vm.container_path \o vm.rest
        ELSE line

\* The body of the loop of process_with_text_replacement: one line.
rewrite_line(line, image_name) ==
    LET vm == volume_match(line)
    IN  IF vm.matched
        THEN LET target_dir == extract_target_directory(vm.container_path)
                 new_host_path == kDockerRoot \o image_name \o <<"/">> \o target_dir
             IN  vm.indent \o new_host_path \o <<":">> \o vm.container_path \o vm.rest
        ELSE line

\* process_with_text_replacement(compose_content, image_name)
process_with_text_replacement(compose_content, image_name) ==
    LET lines == Split(compose_content, NL)
        name == IF image_name = None \/ image_name = <<>>
                THEN extract_image_name_from_text(compose_content)
                ELSE image_name
    IN  Join([i \in 1..Len(lines) |-> rewrite_line(lines[i], name)], NL)

\* rewrite_volume_paths(compose_content, image_name=None)
rewrite_volume_paths(compose_content, image_name) ==
    IF compose_content = None \/ compose_content = <<>>
    THEN compose_content
    ELSE process_with_text_replacement(compose_content, image_name)

\* extract_host_path(volume_string): the host part of a bind mount, None for a
\* named volume or a string without a colon.
extract_host_path(volume_string) ==
    LET parts == Split(volume_string, ":")
        host_part == Strip(parts[1], WS)
    IN  IF Len(parts) < 2 THEN None
        ELSE IF \/ StartsWith(host_part, <<"/">>)
                \/ StartsWith(host_part, <<"~", "/">>)
                \/ StartsWith(host_part, <<".", "/">>)
                \/ StartsWith(host_part, <<".", ".", "/">>)
        THEN host_part
        ELSE None

\* ------------------------------------------- dockerFunc.py: extraction

kBaseUrl ==
    <<"h", "t", "t", "p", "s", ":", "/", "/", "d", "o", "c", "s", ".", "l", "i", "n", "u", "x",
      "s", "e", "r", "v", "e", "r", ".", "i", "o", "/", "i", "m", "a", "g", "e", "s", "/",
      "d", "o", "c", "k", "e", "r", "-">>
kHttp == <<"h", "t", "t", "p", ":", "/", "/">>
kHttps == <<"h", "t", "t", "p", "s", ":", "/", "/">>
kDockerDash == <<"d", "o", "c", "k", "e", "r", "-">>
kDockerCli == <<"d", "o", "c", "k", "e", "r", " ", "c", "l", "i">>
kParameters == <<"P", "a", "r", "a", "m", "e", "t", "e", "r", "s">>
kDashes == <<"-", "-", "-">>
kVendor == <<"l", "s", "c", "r", ".", "i", "o", "/", "l", "i", "n", "u", "x", "s", "e", "r", "v", "e", "r", "/">>
kLt == <<"&", "l", "t", ";">>
kGt == <<"&", "g", "t", ";">>
kAmp == <<"&", "a", "m", "p", ";">>

\* build_url(input_arg)
build_url(input_arg) ==
    IF StartsWith(input_arg, kHttp) \/ StartsWith(input_arg, kHttps)
    THEN input_arg
    ELSE IF StartsWith(input_arg, kDockerDash)
    THEN kBaseUrl \o SubSeq(input_arg, 8, Len(input_arg)) \o <<"/">>
    ELSE kBaseUrl \o input_arg \o <<"/">>

\* re.sub(r'<[^>]+>', '', line)
RECURSIVE strip_tags(_)
strip_tags(line) ==
    LET tags == {i \in 1..Len(line) :
                    /\ line[i] = "<"
                    /\ RunLen(line, i + 1, {">"}) >= 1
                    /\ i + 1 + RunLen(line, i + 1, {">"}) <= Len(line)}
        k == CHOOSE i \in tags : \A j \in tags : i <= j
    IN  IF tags = {} THEN line
        ELSE SubSeq(line, 1, k - 1)
                 \o strip_tags(SubSeq(line, k + 2 + RunLen(line, k + 1, {">"}), Len(line)))

\* The character references a parsed element's text has decoded, in one pass.
RECURSIVE decode_entities(_)
decode_entities(text) ==
    LET refs == {i \in 1..Len(text) : At(text, i, kLt) \/ At(text, i, kGt) \/ At(text, i, kAmp)}
        k == CHOOSE i \in refs : \A j \in refs : i <= j
    IN  IF refs = {} THEN text
        ELSE IF At(text, k, kLt)
        THEN SubSeq(text, 1, k - 1) \o <<"<">> \o decode_entities(SubSeq(text, k + 4, Len(text)))
        ELSE IF At(text, k, kGt)
        THEN SubSeq(text, 1, k - 1) \o <<">">> \o decode_entities(SubSeq(text, k + 4, Len(text)))
        ELSE SubSeq(text, 1, k - 1) \o <<"&">> \o decode_entities(SubSeq(text, k + 5, Len(text)))

kPre == <<"<", "p", "r", "e", ">">>
kPreEnd == <<"<", "/", "p", "r", "e", ">">>
kCode == <<"<", "c", "o", "d", "e", ">">>
kCodeEnd == <<"<", "/", "c", "o", "d", "e", ">">>

\* block.get_text() of the element opened by `open` at position i.
block_text(html_content, i, open, close) ==
    LET from == i + Len(open)
        k == FirstAt(html_content, from, close)
        inner == SubSeq(html_content, from, IF k = 0 THEN Len(html_content) ELSE k - 1)
    IN  decode_entities(strip_tags(inner))

\* soup.find_all(['code', 'pre']), each element as its get_text(), in document
\* order, for elements written <pre>...</pre> and <code>...</code>.
RECURSIVE code_blocks_from(_, _)
code_blocks_from(html_content, i) ==
    LET opens == {j \in i..Len(html_content) : At(html_content, j, kPre) \/ At(html_content, j, kCode)}
        k == CHOOSE j \in opens : \A l \in opens : j <= l
    IN  IF opens = {} THEN <<>>
        ELSE IF At(html_content, k, kPre)
        THEN <<block_text(html_content, k, kPre, kPreEnd)>> \o code_blocks_from(html_content, k + 1)
        ELSE <<block_text(html_content, k, kCode, kCodeEnd)>> \o code_blocks_from(html_content, k + 1)

code_blocks(html_content) == code_blocks_from(html_content, 1)

\* re.search(r'/docker-([^/]+)/?', url): the group, <<>> when there is no match.
url_service_name(url) ==
    LET hits == {i \in 1..Len(url) : At(url, i, <<"/">> \o kDockerDash)
                                      /\ RunLen(url, i + 8, {"/"}) >= 1}
        i0 == CHOOSE i \in hits : \A j \in hits : i <= j
    IN  IF hits = {} THEN <<>>
        ELSE SubSeq(url, i0 + 8, i0 + 7 + RunLen(url, i0 + 8, {"/"}))

\* The fallback of extract_service_name: the first code block that yields a key.
RECURSIVE block_service_name(_, _)
block_service_name(blocks, b) ==
    IF b > Len(blocks) THEN None
    ELSE LET key == IF Contains(blocks[b], kServices)
                    THEN service_key_from(Split(blocks[b], NL), 1) ELSE <<>>
         IN  IF key # <<>> THEN key ELSE block_service_name(blocks, b + 1)

\* extract_service_name(url, html_content)
extract_service_name(url, html_content) ==
    IF Contains(url, kDockerDash) /\ url_service_name(url) # <<>>
    THEN url_service_name(url)
    ELSE block_service_name(code_blocks(html_content), 1)

\* Method 1 of extract_docker_compose: the first code block with 'services:'
\* and the vendor marker, stripped; None when there is none.
RECURSIVE compose_block(_, _)
compose_block(blocks, b) ==
    IF b > Len(blocks) THEN None
    ELSE IF /\ Contains(blocks[b], kServices)
            /\ \/ Contains(blocks[b], kImage \o <<" ">> \o kVendor)
               \/ Contains(blocks[b], kLinuxserver)
    THEN Strip(blocks[b], WS)
    ELSE compose_block(blocks, b + 1)

\* \s*\n at position i: the whitespace run there holds a newline.
ws_newline_at(text, i) ==
    \E j \in i..(i + SpanLen(text, i, WS) - 1) : text[j] = NL

\* The position after the last newline of the whitespace run at i (greedy \s*\n).
after_ws_newline(text, i) ==
    1 + CHOOSE j \in i..(i + SpanLen(text, i, WS) - 1) :
            text[j] = NL /\ \A k \in (j + 1)..(i + SpanLen(text, i, WS) - 1) : text[k] # NL

\* \n\s*<word> at position k
heading_at(text, k, word) ==
    /\ k <= Len(text)
    /\ text[k] = NL
    /\ At(text, k + 1 + SpanLen(text, k + 1, WS), word)

\* Method 2: r'---\s*\n(.*?services:.*?<name>:.*?)(?=\n\s*docker cli|\n\s*Parameters|\Z)'
\* with DOTALL | IGNORECASE; without <name>: when service_name is None or empty.
\* The end of the match that starts at i; 0 when none starts there.
dashes_match_end(html_content, service_name, i) ==
    LET low == Lower(html_content)
        sPos == FirstAt(low, i + 3 + SpanLen(low, i + 3, WS), kServices)
        named == service_name # None /\ service_name # <<>>
        key == Lower(service_name) \o <<":">>
        nPos == IF sPos = 0 \/ ~named THEN 0 ELSE FirstAt(low, sPos + Len(kServices), key)
        e == IF named THEN nPos + Len(key) ELSE sPos + Len(kServices)
    IN  IF ~At(low, i, kDashes) \/ ~ws_newline_at(low, i + 3) THEN 0
        ELSE IF sPos = 0 \/ (named /\ nPos = 0) THEN 0
        ELSE CHOOSE k \in e..(Len(low) + 1) :
                /\ \/ k = Len(low) + 1
                   \/ heading_at(low, k, kDockerCli)
                   \/ heading_at(low, k, Lower(kParameters))
                /\ \A j \in e..(k - 1) :
                      ~(heading_at(low, j, kDockerCli) \/ heading_at(low, j, Lower(kParameters)))

dashes_match(html_content, service_name) ==
    LET hits == {i \in 1..Len(html_content) : dashes_match_end(html_content, service_name, i) # 0}
        i0 == CHOOSE i \in hits : \A j \in hits : i <= j
    IN  IF hits = {} THEN None
        ELSE Strip(SubSeq(html_content, i0, dashes_match_end(html_content, service_name, i0) - 1), WS)

\* Method 3: r'(services:\s*\n.*?image:\s*lscr\.io/linuxserver/.*?)(?=\n[a-zA-Z]|\n\s*docker cli|\Z)'
\* with DOTALL. The end of the match that starts at i; 0 when none starts there.
yaml_match_end(html_content, i) ==
    LET a == i + Len(kServices)
        imgs == {p \in a..Len(html_content) :
                    /\ At(html_content, p, kImage)
                    /\ At(html_content, p + Len(kImage) + SpanLen(html_content, p + Len(kImage), WS), kVendor)}
        p0 == CHOOSE p \in imgs : \A r \in imgs : p <= r
        e == p0 + Len(kImage) + SpanLen(html_content, p0 + Len(kImage), WS) + Len(kVendor)
        stop(k) == \/ k = Len(html_content) + 1
                   \/ /\ k + 1 <= Len(html_content)
                      /\ html_content[k] = NL
                      /\ html_content[k + 1] \in Letters
                   \/ heading_at(html_content, k, kDockerCli)
    IN  IF ~At(html_content, i, kServices) \/ ~ws_newline_at(html_content, a) THEN 0
        ELSE IF imgs = {} THEN 0
        ELSE CHOOSE k \in e..(Len(html_content) + 1) : stop(k) /\ \A j \in e..(k - 1) : ~stop(j)

yaml_match(html_content) ==
    LET hits == {i \in 1..Len(html_content) : yaml_match_end(html_content, i) # 0}
        i0 == CHOOSE i \in hits : \A j \in hits : i <= j
    IN  IF hits = {} THEN None
        ELSE kDashes \o <<NL>> \o SubSeq(html_content, i0, yaml_match_end(html_content, i0) - 1)

\* (?:\s+.*\n)* at position y, greedy: the position after the last line taken.
RECURSIVE indented_lines_end(_, _)
indented_lines_end(text, y) ==
    LET r == SpanLen(text, y, WS)
        z == y + r
        eol == FirstAt(text, z, <<NL>>)
        inrun == {u \in (y + 1)..(z - 1) : text[u] = NL}
    IN  IF r = 0 THEN y
        ELSE IF eol # 0 THEN indented_lines_end(text, eol + 1)
        ELSE IF inrun # {} THEN indented_lines_end(text, 1 + CHOOSE u \in inrun : \A v \in inrun : v <= u)
        ELSE y

\* Method 4: r'(services:\s*\n(?:\s+\w+:\s*\n(?:\s+.*\n)*)*)' with MULTILINE.
\* One pass of the outer group at x: the position after it, x when it does not match.
RECURSIVE service_groups_end(_, _)
service_groups_end(text, x) ==
    LET r == SpanLen(text, x, WS)
        w == SpanLen(text, x + r, WordChars)
        c == x + r + w
    IN  IF r >= 1 /\ w >= 1 /\ At(text, c, <<":">>) /\ ws_newline_at(text, c + 1)
        THEN service_groups_end(text, indented_lines_end(text, after_ws_newline(text, c + 1)))
        ELSE x

services_match(html_content) ==
    LET hits == {i \in 1..Len(html_content) :
                    At(html_content, i, kServices) /\ ws_newline_at(html_content, i + Len(kServices))}
        i0 == CHOOSE i \in hits : \A j \in hits : i <= j
    IN  IF hits = {} THEN None
        ELSE kDashes \o <<NL>> \o
             SubSeq(html_content, i0,
                    service_groups_end(html_content,
                                       after_ws_newline(html_content, i0 + Len(kServices))) - 1)

\* A variant that consults the regular expressions before the code blocks.
extract_docker_compose_regex_first(html_content, service_name) ==
    IF dashes_match(html_content, service_name) # None
    THEN dashes_match(html_content, service_name)
    ELSE IF yaml_match(html_content) # None
    THEN yaml_match(html_content)
    ELSE IF compose_block(code_blocks(html_content), 1) # None
    THEN compose_block(code_blocks(html_content), 1)
    ELSE services_match(html_content)

\* extract_docker_compose(html_content, service_name)
extract_docker_compose(html_content, service_name) ==
    IF compose_block(code_blocks(html_content), 1) # None
    THEN compose_block(code_blocks(html_content), 1)
    ELSE IF dashes_match(html_content, service_name) # None
    THEN dashes_match(html_content, service_name)
    ELSE IF yaml_match(html_content) # None
    THEN yaml_match(html_content)
    ELSE services_match(html_content)

\* A variant that decodes the entities and leaves the tags in place.
clean_docker_compose_entities_only(compose_text) ==
    IF compose_text = None \/ compose_text = <<>> THEN None
    ELSE Replace(Replace(Replace(compose_text, kLt, <<"<">>), kGt, <<">">>), kAmp, <<"&">>)

\* clean_docker_compose(compose_text)
clean_docker_compose(compose_text) ==
    IF compose_text = None \/ compose_text = <<>> THEN None
    ELSE LET decoded == Replace(Replace(Replace(compose_text, kLt, <<"<">>), kGt, <<">">>), kAmp, <<"&">>)
             lines == Split(decoded, NL)
         IN  Join([i \in 1..Len(lines) |-> strip_tags(lines[i])], NL)

\* get_docker_compose(image_name), from the fetched page on (lines 184-194)
compose_from_page(image_name, html_content) ==
    LET service_name == extract_service_name(build_url(image_name), html_content)
        compose_text == extract_docker_compose(html_content, service_name)
    IN  IF compose_text = None \/ compose_text = <<>> THEN None
        ELSE clean_docker_compose(compose_text)

\* ------------------------------------------------------ the file system

kHome == <<"/", "h", "o", "m", "e", "/", "u">>
kCwd == <<"/", "h", "o", "m", "e", "/", "u", "/", "a", "p", "p">>
kDocker == <<"D", "o", "c", "k", "e", "r">>
kComposeFile == <<"d", "o", "c", "k", "e", "r", "-", "c", "o", "m", "p", "o", "s", "e", ".", "y", "m", "l">>
kVolumes == <<"v", "o", "l", "u", "m", "e", "s", ":">>

\* The recognized manifest filenames of run_docker_compose.
compose_files ==
    { <<"d", "o", "c", "k", "e", "r", "-", "c", "o", "m", "p", "o", "s", "e", ".", "y", "m", "l">>, <<"d", "o", "c", "k", "e", "r", "-", "c", "o", "m", "p", "o", "s", "e", ".", "y", "a", "m", "l">>, <<"c", "o", "m", "p", "o", "s", "e", ".", "y", "m", "l">>, <<"c", "o", "m", "p", "o", "s", "e", ".", "y", "a", "m", "l">> }

\* a / b of pathlib
PathJoin(a, b) == a \o <<"/">> \o b

\* A directory path and every ancestor of it (what mkdir(parents=True) leaves).
Ancestors(path) ==
    {SubSeq(path, 1, i - 1) : i \in {j \in 2..Len(path) : path[j] = "/"}} \cup {path}

\* os.path.expanduser(host_path)
expanduser(path) ==
    IF path = <<"~">> \/ StartsWith(path, <<"~", "/">>) THEN kHome \o Tail(path) ELSE path

\* Path(expanded_path).absolute(): a relative path is taken under the working
\* directory, a leading ./ dropped, .. segments kept as written.
absolute(path) ==
    IF StartsWith(path, <<"/">>) THEN path
    ELSE IF StartsWith(path, <<".", "/">>) THEN PathJoin(kCwd, SubSeq(path, 3, Len(path)))
    ELSE PathJoin(kCwd, path)

\* yaml.safe_load(...)['services'][*]['volumes'], for a block-style manifest:
\* the list items under every volumes: key, in document order.
RECURSIVE volumes_from(_, _, _)
volumes_from(lines, i, inside) ==
    IF i > Len(lines) THEN <<>>
    ELSE LET t == Strip(lines[i], WS)
         IN  IF t = kVolumes THEN volumes_from(lines, i + 1, TRUE)
             ELSE IF t = <<>> THEN volumes_from(lines, i + 1, inside)
             ELSE IF inside /\ StartsWith(t, <<"-", " ">>)
             THEN <<Strip(SubSeq(t, 3, Len(t)), WS)>> \o volumes_from(lines, i + 1, TRUE)
             ELSE volumes_from(lines, i + 1, FALSE)

\* 'services' in compose_dict, for a block-style manifest
has_services(compose_yaml_string) ==
    LET lines == Split(compose_yaml_string, NL)
    IN  \E i \in 1..Len(lines) : StartsWith(lines[i], kServices)

\* The directory a path names once the system has resolved its . and ..
\* segments (what stat and mkdir act on).
RECURSIVE resolved_from(_, _, _)
resolved_from(parts, i, kept) ==
    IF i > Len(parts) THEN kept
    ELSE IF parts[i] = <<>> \/ parts[i] = <<".">> THEN resolved_from(parts, i + 1, kept)
    ELSE IF parts[i] = <<".", ".">>
    THEN resolved_from(parts, i + 1, IF kept = <<>> THEN kept ELSE SubSeq(kept, 1, Len(kept) - 1))
    ELSE resolved_from(parts, i + 1, Append(kept, parts[i]))

realpath(path) == <<"/">> \o Join(resolved_from(Split(path, "/"), 1, <<>>), "/")

\* The loop of ensure_docker_directories from entry i on: `have` the directories
\* that exist, `taken` the paths that exist as files, `denied` the entries whose
\* mkdir raises PermissionError, `unreadable` the entries whose exists() raises
\* it (a directory above them may not be searched; pathlib re-raises EACCES).
\* That exception leaves the loop and is caught at line 390: None is returned.
RECURSIVE ensure_from(_, _, _, _, _, _, _)
ensure_from(volumes, i, have, taken, created_directories, denied, unreadable) ==
    IF i > Len(volumes) THEN [dirs |-> have, created |-> created_directories]
    ELSE LET host_path == extract_host_path(volumes[i])
             path_obj == absolute(expanduser(host_path))
             real == realpath(path_obj)
         IN  IF host_path = None \/ host_path = <<>>
             THEN ensure_from(volumes, i + 1, have, taken, created_directories, denied, unreadable)
             ELSE IF i \in unreadable
             THEN [dirs |-> have, created |-> None]
             ELSE IF real \in have \/ real \in taken
             THEN ensure_from(volumes, i + 1, have, taken, created_directories, denied, unreadable)
             ELSE IF i \in denied \/ Ancestors(real) \cap taken # {}
             THEN ensure_from(volumes, i + 1, have, taken, created_directories, denied, unreadable)
             ELSE ensure_from(volumes, i + 1, have \cup Ancestors(real), taken,
                              Append(created_directories, path_obj), denied, unreadable)

\* ensure_docker_directories(compose_yaml_string): the directories afterwards
\* and the returned list (None when nothing was provided or an exception left
\* the loop).
ensure_docker_directories(compose_yaml_string, have, taken, denied, unreadable) ==
    IF compose_yaml_string = None \/ compose_yaml_string = <<>>
    THEN [dirs |-> have, created |-> None]
    ELSE IF ~has_services(compose_yaml_string)
    THEN [dirs |-> have, created |-> <<>>]
    ELSE ensure_from(volumes_from(Split(compose_yaml_string, NL), 1, FALSE), 1,
                     have, taken, <<>>, denied, unreadable)

\* --------------------------------------------------------- cloudflare.py

kDomain == <<"e", "x", "a", "m", "p", "l", "e", ".", "c", "o", "m">>

\* image_name.lower().strip(), the docker- prefix removed, joined to the domain
subdomain_of(image_name, domain_name) ==
    LET lowered == Strip(Lower(image_name), WS)
        bare == IF StartsWith(lowered, kDockerDash) THEN SubSeq(lowered, 8, Len(lowered)) ELSE lowered
    IN  bare \o <<".">> \o Strip(Lower(domain_name), WS)

\* One request as the API sees it.
Request(method, resource, name, content) ==
    [method |-> method, resource |-> resource, name |-> name, content |-> content]

\* The type-A records the zone holds under a name.
records_named(records, name) == {r \in records : r.name = name}

\* check_existing_dns_record: {records[0]} of a successful lookup, {} (None) when
\* the lookup failed or found nothing.
check_existing_dns_record(records, subdomain, lookup_ok) ==
    IF ~lookup_ok THEN {}
    ELSE {r \in records_named(records, subdomain) :
             \A q \in records_named(records, subdomain) : r.id <= q.id}

\* The zone's answer to POST dns_records: an identical record is refused.
post_accepted(records, subdomain, ip_address, write_ok) ==
    write_ok /\ ~\E r \in records : r.name = subdomain /\ r.content = ip_address

\* create_cloudflare_subdomain(ip_address, image_name, domain_name, api_token)
\* against a zone holding `records`; zone, lookup_ok and write_ok are the
\* answers of the API to the three calls. Yields the requests sent, the
\* records afterwards and whether a response (not None) is returned.
create_cloudflare_subdomain(ip_address, image_name, domain_name, api_token, records, zone, lookup_ok, write_ok) ==
    LET subdomain == subdomain_of(image_name, domain_name)
        get_zone == Request("GET", "zones", Strip(Lower(domain_name), WS), <<>>)
        list_zones == Request("GET", "zones", <<>>, <<>>)
        get_record == Request("GET", "dns_records", subdomain, <<>>)
        existing_record == check_existing_dns_record(records, subdomain, lookup_ok)
        fresh == [id |-> Cardinality(records) + 1, name |-> subdomain, content |-> ip_address]
    IN  IF ip_address = <<>> \/ image_name = <<>> \/ domain_name = <<>>
        THEN [requests |-> <<>>, records |-> records, ok |-> FALSE]
        ELSE IF api_token = None \/ api_token = <<>>
        THEN [requests |-> <<>>, records |-> records, ok |-> FALSE]
        ELSE IF zone = "error"
        THEN [requests |-> <<get_zone>>, records |-> records, ok |-> FALSE]
        ELSE IF zone = "absent"
        THEN [requests |-> <<get_zone, list_zones>>, records |-> records, ok |-> FALSE]
        ELSE IF existing_record # {}
        THEN [requests |-> <<get_zone, get_record,
                             Request("PUT", "dns_records", subdomain, ip_address)>>,
              records |-> IF write_ok
                          THEN (records \ existing_record)
                                   \cup {[r EXCEPT !.content = ip_address] : r \in existing_record}
                          ELSE records,
              ok |-> write_ok]
        ELSE [requests |-> <<get_zone, get_record,
                             Request("POST", "dns_records", subdomain, ip_address)>>,
              records |-> IF post_accepted(records, subdomain, ip_address, write_ok)
                          THEN records \cup {fresh} ELSE records,
              ok |-> post_accepted(records, subdomain, ip_address, write_ok)]

\* ------------------------------------------------------------- claude.py

\* The character U+0060, which a TLA+ string cannot hold.
Backquote == "U+0060"

kFence == <<Backquote, Backquote, Backquote>>
kServer == <<"s", "e", "r", "v", "e", "r">>

fence_langs == { <<"n", "g", "i", "n", "x">>, <<"c", "o", "n", "f">>, <<"a", "p", "a", "c", "h", "e">>, <<>> }

\* r'```(?:nginx|conf|apache)?\n(.*?)```' with DOTALL, tried at position i: where
\* the group starts; 0 when no block opens at i.
fence_content_start(text, i) ==
    LET opts == {l \in fence_langs : At(text, i + 3, l \o <<NL>>)}
    IN  IF ~At(text, i, kFence) \/ opts = {} THEN 0
        ELSE i + 4 + Len(CHOOSE l \in opts : TRUE)

\* code_matches[0], when re.findall found a block
code_match(text) ==
    LET hits == {i \in 1..Len(text) :
                    /\ fence_content_start(text, i) # 0
                    /\ FirstAt(text, fence_content_start(text, i), kFence) # 0}
        i0 == CHOOSE i \in hits : \A j \in hits : i <= j
        a == fence_content_start(text, i0)
    IN  IF hits = {} THEN [found |-> FALSE, text |-> <<>>]
        ELSE [found |-> TRUE, text |-> SubSeq(text, a, FirstAt(text, a, kFence) - 1)]

\* r'(server\s*{.*?})' with DOTALL: server_matches[0]
server_match(text) ==
    LET brace(i) == i + Len(kServer) + SpanLen(text, i + Len(kServer), WS)
        hits == {i \in 1..Len(text) :
                    /\ At(text, i, kServer)
                    /\ At(text, brace(i), <<"{">>)
                    /\ FirstAt(text, brace(i) + 1, <<"}">>) # 0}
        i0 == CHOOSE i \in hits : \A j \in hits : i <= j
    IN  IF hits = {} THEN [found |-> FALSE, text |-> <<>>]
        ELSE [found |-> TRUE, text |-> SubSeq(text, i0, FirstAt(text, brace(i0) + 1, <<"}">>))]

\* generate_nginx_config, from the response text on (lines 43-61)
generate_nginx_config(response_text) ==
    IF code_match(response_text).found THEN Strip(code_match(response_text).text, WS)
    ELSE IF server_match(response_text).found THEN Strip(server_match(response_text).text, WS)
    ELSE Strip(response_text, WS)

\* -------------------------------------------------------------- nginx.py

\* run_with_sudo(command): what the two attempts did.
\*   "first":   `sudo -n command` ran the command, which exited 0;
\*   "second":  sudo -n refused (a password is needed, the command did not run)
\*              and the prompting `sudo command` ran it with exit 0;
\*   "retried": sudo -n ran the command, which exited non-zero, and the
\*              prompting attempt ran it again with exit 0;
\*   "denied":  neither attempt got as far as running the command;
\*   "failed":  the command ran under both attempts and exited non-zero twice;
\*   "timeout": sudo -n ran the command past the 5 s limit (None is returned).
sudo_outcomes == {"first", "second", "retried", "denied", "failed", "timeout"}

\* `result and result.returncode == 0`
sudo_succeeded(outcome) == outcome \in {"first", "second", "retried"}

\* the executions of `command` one run_with_sudo call started
sudo_executions(command, outcome) ==
    IF outcome = "denied" THEN <<>>
    ELSE IF outcome \in {"retried", "failed"} THEN <<command, command>>
    ELSE <<command>>

site_filename(name, domain_name) == name \o <<".">> \o domain_name

temp_config_path(name, domain_name) ==
    <<"/", "t", "m", "p", "/">> \o site_filename(name, domain_name) \o <<".", "n", "g", "i", "n", "x", ".", "c", "o", "n", "f">>

\* setup_nginx without the os.path.exists test of line 48: the link is made on
\* every call, and `ln -s` onto an existing entry exits non-zero.
setup_nginx_always_links(config_string, name, domain_name, available, enabled, tmp, tmp_ok, cp, ln) ==
    LET filename == site_filename(name, domain_name)
        temp == temp_config_path(name, domain_name)
        installed == [f \in DOMAIN available \cup {filename} |->
                         IF f = filename THEN config_string ELSE available[f]]
        copied == sudo_executions("cp", cp)
        linked == IF filename \in enabled THEN <<"ln", "ln">> ELSE sudo_executions("ln", ln)
    IN  IF ~tmp_ok
        THEN [available |-> available, enabled |-> enabled, tmp |-> tmp, ok |-> FALSE,
              commands |-> <<>>]
        ELSE IF config_string = None
        THEN [available |-> available, enabled |-> enabled, tmp |-> tmp \cup {temp},
              ok |-> FALSE, commands |-> <<>>]
        ELSE IF ~sudo_succeeded(cp)
        THEN [available |-> available, enabled |-> enabled, tmp |-> tmp \cup {temp},
              ok |-> FALSE, commands |-> copied]
        ELSE IF filename \in enabled \/ ~sudo_succeeded(ln)
        THEN [available |-> installed, enabled |-> enabled, tmp |-> tmp \cup {temp},
              ok |-> FALSE, commands |-> copied \o linked]
        ELSE [available |-> installed, enabled |-> enabled \cup {filename},
              tmp |-> tmp \ {temp}, ok |-> TRUE, commands |-> copied \o linked]

\* setup_nginx(config_string, name, domain_name) on the given sites-available
\* (filename -> content), sites-enabled and temporary files; tmp_ok is whether
\* the temporary file could be written, cp and ln what run_with_sudo did.
setup_nginx(config_string, name, domain_name, available, enabled, tmp, tmp_ok, cp, ln) ==
    LET filename == site_filename(name, domain_name)
        temp == temp_config_path(name, domain_name)
        installed == [f \in DOMAIN available \cup {filename} |->
                         IF f = filename THEN config_string ELSE available[f]]
        copied == sudo_executions("cp", cp)
        linked == sudo_executions("ln", ln)
    IN  IF ~tmp_ok
        THEN [available |-> available, enabled |-> enabled, tmp |-> tmp, ok |-> FALSE,
              commands |-> <<>>]
        ELSE IF config_string = None
        THEN [available |-> available, enabled |-> enabled, tmp |-> tmp \cup {temp},
              ok |-> FALSE, commands |-> <<>>]
        ELSE IF ~sudo_succeeded(cp)
        THEN [available |-> available, enabled |-> enabled, tmp |-> tmp \cup {temp},
              ok |-> FALSE, commands |-> copied]
        ELSE IF filename \in enabled
        THEN [available |-> installed, enabled |-> enabled, tmp |-> tmp \ {temp}, ok |-> TRUE,
              commands |-> copied]
        ELSE IF ~sudo_succeeded(ln)
        THEN [available |-> installed, enabled |-> enabled, tmp |-> tmp \cup {temp},
              ok |-> FALSE, commands |-> copied \o linked]
        ELSE [available |-> installed, enabled |-> enabled \cup {filename},
              tmp |-> tmp \ {temp}, ok |-> TRUE, commands |-> copied \o linked]

\* reload_and_restart_nginx(): both commands always run
reload_and_restart_nginx(reload_success, restart_success) == reload_success /\ restart_success

\* ------------------------------------------------- dockerFunc.py: persist

\* create_docker_compose_file(compose_content, image_name) on the directories
\* and files (path -> content) given; outcome is what the file system does:
\* "ok", "mkdir" (the directory cannot be created), "open" (the file cannot be
\* opened for writing), "write" (the write does not complete).
persist_outcomes == {"ok", "mkdir", "open", "write"}

\* A variant that reports success whatever became of the write.
create_docker_compose_file_unchecked(compose_content, image_name, have, fs, outcome) ==
    LET target_dir == PathJoin(PathJoin(kHome, kDocker), image_name)
        compose_file_path == PathJoin(target_dir, kComposeFile)
        opened == [p \in DOMAIN fs \cup {compose_file_path} |->
                      IF p = compose_file_path THEN <<>> ELSE fs[p]]
        written == [p \in DOMAIN fs \cup {compose_file_path} |->
                      IF p = compose_file_path THEN compose_content ELSE fs[p]]
    IN  IF outcome = "mkdir" /\ target_dir \notin have
        THEN [dirs |-> have, files |-> fs, ok |-> FALSE]
        ELSE IF outcome = "open"
        THEN [dirs |-> have \cup Ancestors(target_dir), files |-> fs, ok |-> FALSE]
        ELSE IF compose_content = None \/ outcome = "write"
        THEN [dirs |-> have \cup Ancestors(target_dir), files |-> opened, ok |-> TRUE]
        ELSE [dirs |-> have \cup Ancestors(target_dir), files |-> written, ok |-> TRUE]

create_docker_compose_file(compose_content, image_name, have, fs, outcome) ==
    LET target_dir == PathJoin(PathJoin(kHome, kDocker), image_name)
        compose_file_path == PathJoin(target_dir, kComposeFile)
        made == have \cup Ancestors(target_dir)
        opened == [p \in DOMAIN fs \cup {compose_file_path} |->
                      IF p = compose_file_path THEN <<>> ELSE fs[p]]
        written == [p \in DOMAIN fs \cup {compose_file_path} |->
                      IF p = compose_file_path THEN compose_content ELSE fs[p]]
    IN  IF outcome = "mkdir" /\ target_dir \notin have
        THEN [dirs |-> have, files |-> fs, ok |-> FALSE]
        ELSE IF outcome = "open"
        THEN [dirs |-> made, files |-> fs, ok |-> FALSE]
        ELSE IF compose_content = None \/ outcome = "write"
        THEN [dirs |-> made, files |-> opened, ok |-> FALSE]
        ELSE [dirs |-> made, files |-> written, ok |-> TRUE]

\* run_docker_compose(image_name): whether docker compose is invoked
compose_invoked(image_name, have, fs) ==
    LET compose_dir == PathJoin(PathJoin(kHome, kDocker), image_name)
    IN  /\ compose_dir \in have
        /\ \E compose_file \in compose_files : PathJoin(compose_dir, compose_file) \in DOMAIN fs

\* run_docker_compose_with_options(image_name, extra_args): whether docker
\* compose is invoked (lines 554-566: only the directory is looked for)
options_invoked(image_name, have) == PathJoin(PathJoin(kHome, kDocker), image_name) \in have

\* stop_docker_compose(image_name): whether docker compose is invoked (lines
\* 600-606: only the directory is looked for)
stop_invoked(image_name, have) == PathJoin(PathJoin(kHome, kDocker), image_name) \in have

\* ------------------------------------------------ the workflows: inputs

MaxRuns == 2

kPlex == <<"p", "l", "e", "x">>
kProwlarr == <<"p", "r", "o", "w", "l", "a", "r", "r">>

ImageNames == { kPlex, <<"d", "o", "c", "k", "e", "r", "-", "p", "l", "e", "x">> }

IpAddresses == { <<"1", "0", ".", "0", ".", "0", ".", "1">>, <<"1", "0", ".", "0", ".", "0", ".", "2">> }

\* os.getenv("CLOUDFLARE_API_KEY")
Tokens == { None, <<"k">> }

\* A documentation page whose code block holds the vendor's manifest.
PageVendor ==
    kPre \o Join(<< <<"-", "-", "-">>, <<"s", "e", "r", "v", "i", "c", "e", "s", ":">>, <<" ", " ", "p", "l", "e", "x", ":">>,
                    <<" ", " ", " ", " ", "i", "m", "a", "g", "e", ":", " ", "l", "s", "c", "r", ".", "i", "o", "/", "l", "i", "n", "u", "x", "s", "e", "r", "v", "e", "r", "/", "p", "l", "e", "x">>, <<" ", " ", " ", " ", "v", "o", "l", "u", "m", "e", "s", ":">>,
                    <<" ", " ", " ", " ", " ", " ", "-", " ", "/", "c", "f", "g", ":", "/", "c", "o", "n", "f", "i", "g">> >>, NL) \o kPreEnd

\* A page without a manifest.
PageOther == <<"<", "p", ">", "m", "o", "v", "e", "d", "<", "/", "p", ">">>

Pages == { PageVendor, PageOther }

\* What fetch_page_with_curl returns: a page, '' or None.
Fetched == Pages \cup { <<>>, None }

ResponseFenced == <<"o", "k", "\n", Backquote, Backquote, Backquote, "n", "g", "i", "n", "x", "\n", "s", "e", "r", "v", "e", "r", " ", "{", "a", "}", "\n", Backquote, Backquote, Backquote>>
ResponsePlain == <<" ", "s", "e", "r", "v", "e", "r", " ", "{", "b", "}", " ">>

Responses == { ResponseFenced, ResponsePlain }

\* ------------------------------------------------ the workflows: actions

xvars == <<document, hint, extracted, cleaned_compose, xp>>

evars == <<yml, present, occupied, refused, hidden, ensured, ep>>

tvars == <<op, invoked, returned>>

gvars == <<reply, config, gp>>

rvars == <<m, s, once, twice, rw, xvars, evars, tvars, gvars>>

\* The drivers of the single functions are not running.
ExtractOff ==
    /\ document = None /\ hint = None /\ extracted = None /\ cleaned_compose = None /\ xp = "off"

EnsureOff ==
    /\ yml = None /\ present = {} /\ occupied = {} /\ refused = {} /\ hidden = {}
    /\ ensured = None /\ ep = "off"

GenerateOff ==
    reply = None /\ config = None /\ gp = "off"

RuntimeOff ==
    op = "none" /\ invoked = FALSE /\ returned = FALSE

wvars == <<image, wf, pc, runs, completed, log, ret, ipaddress, cloudflare_api_key, html,
           docker_compose_yml, created, nginx_config, requests, dirs, files,
           sites_available, sites_enabled, tmp_files, sudo_log, dns_records, docker_up>>

Logged(stage, ok) == Append(log, [stage |-> stage, ok |-> ok])

\* Every call of the run returned success.
AllSucceeded(calls) == \A i \in 1..Len(calls) : calls[i].ok

\* image_name as the running workflow passes it on
CurrentImage == IF wf = "default" THEN kProwlarr ELSE image

\* The state of the machine before any workflow has run.
Installed ==
    /\ dirs = Ancestors(kCwd)
    /\ files = <<>>
    /\ sites_available = <<>>
    /\ sites_enabled = {}
    /\ tmp_files = {}
    /\ dns_records = {}
    /\ docker_up = {}

Idle ==
    /\ wf = "none"
    /\ pc = "idle"
    /\ runs = 0
    /\ completed = 0
    /\ log = <<>>
    /\ ret = <<"running">>
    /\ ipaddress = None
    /\ cloudflare_api_key = None
    /\ html = None
    /\ docker_compose_yml = None
    /\ created = None
    /\ nginx_config = None
    /\ requests = <<>>
    /\ sudo_log = <<>>

Init ==
    /\ image \in ImageNames
    /\ Idle
    /\ Installed
    /\ GenerateOff
    /\ RuntimeOff
    /\ m = None /\ s = None /\ once = None /\ twice = None /\ rw = "off"
    /\ ExtractOff
    /\ EnsureOff

\* main(): one invocation of the program starts one workflow
Start(flow, first) ==
    /\ pc \in {"idle", "done"}
    /\ runs < MaxRuns
    /\ wf' = flow
    /\ pc' = first
    /\ runs' = runs + 1
    /\ UNCHANGED completed
    /\ log' = <<>>
    /\ ret' = <<"running">>
    /\ html' = None
    /\ docker_compose_yml' = None
    /\ created' = None
    /\ nginx_config' = None
    /\ requests' = <<>>
    /\ sudo_log' = <<>>
    /\ UNCHANGED <<image, dirs, files, sites_available, sites_enabled, tmp_files,
                   dns_records, docker_up>>
    /\ UNCHANGED rvars

\* main() with --install_image: setup_docker_service(image_name, ...)
StartDocker ==
    /\ Start("docker", "fetch")
    /\ UNCHANGED <<ipaddress, cloudflare_api_key>>

\* main() with --cloudflare_dns: setup_cloudflare(ipaddress, image_name, ...)
StartCloudflare ==
    /\ Start("cloudflare", "dns")
    /\ ipaddress' \in IpAddresses
    /\ cloudflare_api_key' \in Tokens

\* defaultServerSetup()
StartDefault ==
    /\ Start("default", "fetch")
    /\ UNCHANGED <<ipaddress, cloudflare_api_key>>

\* get_docker_compose: html_content = fetch_page_with_curl(url)
Fetch ==
    /\ pc = "fetch"
    /\ \E page \in Fetched :
         IF page = None \/ page = <<>>
         THEN /\ html' = None
              /\ log' = Logged("fetch", FALSE)
              /\ pc' = "rewrite"
         ELSE /\ html' = page
              /\ log' = Logged("fetch", TRUE)
              /\ pc' = "extract"
    /\ UNCHANGED <<image, wf, runs, completed, ret, ipaddress, cloudflare_api_key, docker_compose_yml, created,
                   nginx_config, requests, dirs, files, sites_available, sites_enabled,
                   tmp_files, sudo_log, dns_records, docker_up>>
    /\ UNCHANGED rvars

\* get_docker_compose: service name, extraction, cleaning
Extract ==
    /\ pc = "extract"
    /\ docker_compose_yml' = compose_from_page(CurrentImage, html)
    /\ html' = None
    /\ log' = Logged("extract", docker_compose_yml' # None)
    /\ pc' = "rewrite"
    /\ UNCHANGED <<image, wf, runs, completed, ret, ipaddress, cloudflare_api_key, created,
                   nginx_config, requests, dirs, files, sites_available, sites_enabled,
                   tmp_files, sudo_log, dns_records, docker_up>>
    /\ UNCHANGED rvars

\* docker_compose_yml = df.rewrite_volume_paths(docker_compose_yml)
Rewrite ==
    /\ pc = "rewrite"
    /\ docker_compose_yml' = rewrite_volume_paths(docker_compose_yml, None)
    /\ log' = Logged("rewrite", docker_compose_yml' # None)
    /\ pc' = "ensure"
    /\ UNCHANGED <<image, wf, runs, completed, ret, ipaddress, cloudflare_api_key, html, created,
                   nginx_config, requests, dirs, files, sites_available, sites_enabled,
                   tmp_files, sudo_log, dns_records, docker_up>>
    /\ UNCHANGED rvars

\* df.ensure_docker_directories(docker_compose_yml)
EnsureDirs ==
    /\ pc = "ensure"
    /\ \E entries \in {1..Len(IF docker_compose_yml = None THEN <<>>
                            ELSE volumes_from(Split(docker_compose_yml, NL), 1, FALSE))} :
       \E denied \in SUBSET entries :
       \E unreadable \in SUBSET entries :
         LET r == ensure_docker_directories(docker_compose_yml, dirs, DOMAIN files, denied, unreadable)
         IN  /\ dirs' = r.dirs
             /\ created' = r.created
             /\ log' = Logged("ensure", r.created # None)
    /\ pc' = IF wf = "default" THEN "nameerror" ELSE "persist"
    /\ UNCHANGED <<image, wf, runs, completed, ret, ipaddress, cloudflare_api_key, html,
                   docker_compose_yml, nginx_config, requests, files, sites_available,
                   sites_enabled, tmp_files, sudo_log, dns_records, docker_up>>
    /\ UNCHANGED rvars

\* df.create_docker_compose_file(docker_compose_yml, image_name)
Persist ==
    /\ pc = "persist"
    /\ \E outcome \in persist_outcomes :
         LET r == create_docker_compose_file(docker_compose_yml, image, dirs, files, outcome)
         IN  /\ dirs' = r.dirs
             /\ files' = r.files
             /\ log' = Logged("persist", r.ok)
    /\ pc' = "up"
    /\ UNCHANGED <<image, wf, runs, completed, ret, ipaddress, cloudflare_api_key, html,
                   docker_compose_yml, created, nginx_config, requests, sites_available,
                   sites_enabled, tmp_files, sudo_log, dns_records, docker_up>>
    /\ UNCHANGED rvars

\* df.run_docker_compose(image_name); setup_docker_service then returns None
Up ==
    /\ pc = "up"
    /\ \E run_ok \in BOOLEAN :
         LET ok == compose_invoked(image, dirs, files) /\ run_ok
         IN  /\ docker_up' = IF ok THEN docker_up \cup {image} ELSE docker_up
             /\ log' = Logged("up", ok)
    /\ completed' = IF AllSucceeded(log') THEN completed + 1 ELSE completed
    /\ pc' = "done"
    /\ ret' = None
    /\ UNCHANGED <<image, wf, runs, ipaddress, cloudflare_api_key, html,
                   docker_compose_yml, created, nginx_config, requests, dirs, files,
                   sites_available, sites_enabled, tmp_files, sudo_log, dns_records>>
    /\ UNCHANGED rvars

\* defaultServerSetup, line 74: the name claude_api_key is not defined
DefaultNameError ==
    /\ pc = "nameerror"
    /\ pc' = "done"
    /\ ret' = <<"raised">>
    /\ UNCHANGED <<image, wf, runs, completed, log, ipaddress, cloudflare_api_key, html,
                   docker_compose_yml, created, nginx_config, requests, dirs, files,
                   sites_available, sites_enabled, tmp_files, sudo_log, dns_records, docker_up>>
    /\ UNCHANGED rvars

\* cloudflare.create_cloudflare_subdomain(ip_address, image_name, domain_name, key)
Dns ==
    /\ pc = "dns"
    /\ \E zone \in {"ok", "error", "absent"}, lookup_ok \in BOOLEAN, write_ok \in BOOLEAN :
         LET r == create_cloudflare_subdomain(ipaddress, image, kDomain, cloudflare_api_key,
                                              dns_records, zone, lookup_ok, write_ok)
         IN  /\ requests' = r.requests
             /\ dns_records' = r.records
             /\ log' = Logged("dns", r.ok)
    /\ pc' = "generate"
    /\ UNCHANGED <<image, wf, runs, completed, ret, ipaddress, cloudflare_api_key, html,
                   docker_compose_yml, created, nginx_config, dirs, files, sites_available,
                   sites_enabled, tmp_files, sudo_log, docker_up>>
    /\ UNCHANGED rvars

\* nginx_config = claude.generate_nginx_config(...): an API error is raised to
\* the caller, which does not catch it
Generate ==
    /\ pc = "generate"
    /\ \E response \in Responses \cup {None} :
         IF response = None
         THEN /\ log' = Logged("generate", FALSE)
              /\ pc' = "done"
              /\ ret' = <<"raised">>
              /\ UNCHANGED nginx_config
         ELSE /\ nginx_config' = generate_nginx_config(response)
              /\ log' = Logged("generate", TRUE)
              /\ pc' = "nginx"
              /\ UNCHANGED ret
    /\ UNCHANGED <<image, wf, runs, completed, ipaddress, cloudflare_api_key, html,
                   docker_compose_yml, created, requests, dirs, files, sites_available,
                   sites_enabled, tmp_files, sudo_log, dns_records, docker_up>>
    /\ UNCHANGED rvars

\* nginx.setup_nginx(nginx_config, image_name, domain_name)
Nginx ==
    /\ pc = "nginx"
    /\ \E tmp_ok \in BOOLEAN, cp \in sudo_outcomes, ln \in sudo_outcomes :
         LET r == setup_nginx(nginx_config, image, kDomain, sites_available,
                              sites_enabled, tmp_files, tmp_ok, cp, ln)
         IN  /\ sites_available' = r.available
             /\ sites_enabled' = r.enabled
             /\ tmp_files' = r.tmp
             /\ sudo_log' = r.commands
             /\ log' = Logged("nginx", r.ok)
    /\ pc' = "reload"
    /\ UNCHANGED <<image, wf, runs, completed, ret, ipaddress, cloudflare_api_key, html,
                   docker_compose_yml, created, nginx_config, requests, dirs, files,
                   dns_records, docker_up>>
    /\ UNCHANGED rvars

\* nginx.reload_and_restart_nginx()
Reload ==
    /\ pc = "reload"
    /\ \E reload_success \in BOOLEAN, restart_success \in BOOLEAN :
         log' = Logged("reload", reload_and_restart_nginx(reload_success, restart_success))
    /\ pc' = "certbot"
    /\ UNCHANGED <<image, wf, runs, completed, ret, ipaddress, cloudflare_api_key, html,
                   docker_compose_yml, created, nginx_config, requests, dirs, files,
                   sites_available, sites_enabled, tmp_files, sudo_log, dns_records, docker_up>>
    /\ UNCHANGED rvars

\* nginx.run_certbot_interactive(); setup_cloudflare then returns None
Certbot ==
    /\ pc = "certbot"
    /\ \E returncode_zero \in BOOLEAN : log' = Logged("certbot", returncode_zero)
    /\ completed' = IF AllSucceeded(log') THEN completed + 1 ELSE completed
    /\ pc' = "done"
    /\ ret' = None
    /\ UNCHANGED <<image, wf, runs, ipaddress, cloudflare_api_key, html,
                   docker_compose_yml, created, nginx_config, requests, dirs, files,
                   sites_available, sites_enabled, tmp_files, sudo_log, dns_records, docker_up>>
    /\ UNCHANGED rvars

Next ==
    \/ StartDocker
    \/ StartCloudflare
    \/ StartDefault
    \/ Fetch
    \/ Extract
    \/ Rewrite
    \/ EnsureDirs
    \/ Persist
    \/ Up
    \/ DefaultNameError
    \/ Dns
    \/ Generate
    \/ Nginx
    \/ Reload
    \/ Certbot

Spec == Init /\ [][Next]_vars

\* ---------------------------------------------------------------- C1 .. C6

\* C1 (as claimed): in every run each stage is attempted at most once, and once
\* a stage has failed no later stage is attempted.
C1_HaltsAtFirstFailure ==
    \A i \in 1..Len(log) : \A j \in 1..Len(log) :
        i < j => (log[i].stage # log[j].stage /\ log[i].ok)

\* C2 (as claimed): when every stage before the proxy reload succeeded and the
\* reload fails, the workflow's result names the reload as the failing stage, and
\* neither certificate issuance nor DNS configuration is attempted in the run.
C2_ReloadFailureReported ==
    (/\ pc = "done"
     /\ \E i \in 1..Len(log) :
          /\ log[i] = [stage |-> "reload", ok |-> FALSE]
          /\ \A j \in 1..(i - 1) : log[j].ok)
        => /\ ret = <<"failed", "reload">>
           /\ \A j \in 1..Len(log) : log[j].stage \notin {"certbot", "dns"}

\* The place of each stage in the order fetch, extract, rewrite, ensure
\* directories, persist, proxy config, proxy enable, certificate, reload, DNS.
StageRank ==
    [fetch |-> 1, extract |-> 2, rewrite |-> 3, ensure |-> 4, persist |-> 5,
     generate |-> 6, nginx |-> 7, certbot |-> 8, reload |-> 9, dns |-> 10]

\* C3 (as claimed): the stages of a run occur in the order fetch, extract,
\* rewrite, ensure directories, persist, proxy-config generation, proxy enable,
\* certificate issuance, proxy reload, DNS configuration.
C3_StageOrder ==
    \A i \in 1..Len(log) : \A j \in 1..Len(log) :
        (i < j /\ log[i].stage \in DOMAIN StageRank /\ log[j].stage \in DOMAIN StageRank)
            => StageRank[log[i].stage] < StageRank[log[j].stage]

\* The step is one in which a stage is attempted and fails.
StageFails == Len(log') = Len(log) + 1 /\ ~log'[Len(log')].ok

\* What the completed stages have produced (the directories, each manifest a
\* persist stage wrote, each proxy config an enable stage installed and linked)
\* is there unaltered in the next state.
ArtifactsKept ==
    /\ dirs \subseteq dirs'
    /\ \A p \in DOMAIN files :
          files[p] # <<>> => (p \in DOMAIN files' /\ files'[p] = files[p])
    /\ \A f \in sites_enabled :
          /\ f \in sites_enabled'
          /\ f \in DOMAIN sites_available' /\ sites_available'[f] = sites_available[f]

\* C4 (as claimed): a stage that fails leaves every artifact completed earlier
\* (directories, the persisted manifest and its content, the installed and
\* enabled proxy config) exactly as it was.
C4_FailureKeepsArtifacts == [][StageFails => ArtifactsKept]_vars

\* C5 (as claimed): create_cloudflare_subdomain looks the record up before any
\* write; when a type-A record named <serviceId>.<domain> exists it never sends
\* a create (POST), and it sends an update (PUT) only for an existing record.
C5_UpdateNeverCreate ==
    [][(pc = "dns" /\ pc' # "dns") =>
          LET name == subdomain_of(image, kDomain)
              sent == requests'
              IsLookup(q) == q.method = "GET" /\ q.resource = "dns_records" /\ q.name = name
          IN  /\ \A i \in 1..Len(sent) :
                    sent[i].method \in {"POST", "PUT"} => \E j \in 1..(i - 1) : IsLookup(sent[j])
              /\ records_named(dns_records, name) # {}
                    => \A i \in 1..Len(sent) : sent[i].method # "POST"
              /\ records_named(dns_records, name) = {}
                    => \A i \in 1..Len(sent) : sent[i].method # "PUT"]_vars

\* The manifest files persisted for the service.
ManifestFiles ==
    {p \in DOMAIN files : StartsWith(p, PathJoin(PathJoin(kHome, kDocker), image) \o <<"/">>)}

\* C6 (as claimed): when every run so far was complete, then after a run with
\* the DNS stage there is exactly one type-A record for <serviceId>.<domain>,
\* and after a run with the persist stage exactly one manifest file for the
\* service, however many runs preceded it.
C6_OneRecordOneManifest ==
    (pc = "done" /\ completed = runs) =>
        /\ wf = "cloudflare"
              => Cardinality(records_named(dns_records, subdomain_of(image, kDomain))) = 1
        /\ wf = "docker" => Cardinality(ManifestFiles) = 1

\* ------------------------------------------------ SpecRewrite: the inputs

MaxMounts == 1

kIndent == <<" ", " ", " ", " ", "-", " ">>

HostSides ==
    { <<"/", "d", "a", "t", "a", "/", "t", "v">>,
      <<"/">>,
      <<".", "/", "c", "o", "n", "f", "i", "g">>,
      <<".", ".", "/", "x">>,
      <<"~", "/", "c", "f", "g">>,
      <<"~", "/", "D", "o", "c", "k", "e", "r", "/", "j", "e", "l", "l", "y", "f", "i", "n",
        "/", "t", "v", "s", "h", "o", "w", "s">>,
      <<"m", "y", "d", "a", "t", "a">> }

ContainerSides ==
    { <<"/", "d", "a", "t", "a", "/", "t", "v", "s", "h", "o", "w", "s">>,
      <<"/", "c", "o", "n", "f", "i", "g">>,
      <<"/">>,
      <<"/", "/">>,
      <<"/", "a", "/", "b", "/">>,
      <<"/", "a", "/", "/", "b">> }

Options == { <<>>, <<":", "r", "o">>, <<" ", "#", "c">> }

kJellyfin == <<"j", "e", "l", "l", "y", "f", "i", "n">>

ServiceIds == { None, kJellyfin, <<"x">> }

\* A compact mount entry as a manifest line.
MountLine(host, container, options) == kIndent \o host \o <<":">> \o container \o options

MountLines == { MountLine(h, c, o) : h \in HostSides, c \in ContainerSides, o \in Options }

HeaderVendor ==
    << <<"s", "e", "r", "v", "i", "c", "e", "s", ":">>,
       <<" ", " ", "j", "e", "l", "l", "y", "f", "i", "n", ":">>,
       <<" ", " ", " ", " ", "i", "m", "a", "g", "e", ":", " ", "l", "s", "c", "r", ".", "i", "o",
         "/", "l", "i", "n", "u", "x", "s", "e", "r", "v", "e", "r", "/", "j", "e", "l", "l", "y",
         "f", "i", "n", ":", "l", "a", "t", "e", "s", "t">>,
       <<" ", " ", " ", " ", "v", "o", "l", "u", "m", "e", "s", ":">> >>

HeaderPlain ==
    << <<"s", "e", "r", "v", "i", "c", "e", "s", ":">>,
       <<" ", " ", "w", "e", "b", ":">>,
       <<" ", " ", " ", " ", "i", "m", "a", "g", "e", ":", " ", "n", "g", "i", "n", "x">>,
       <<" ", " ", " ", " ", "v", "o", "l", "u", "m", "e", "s", ":">> >>

Headers == { HeaderVendor, HeaderPlain }

MountSeqs == UNION { [1..k -> MountLines] : k \in 0..MaxMounts }

Manifests == { Join(h \o ms, NL) : h \in Headers, ms \in MountSeqs }

\* ------------------------------------------------- SpecRewrite: the driver

InitRewrite ==
    /\ m \in Manifests
    /\ s \in ServiceIds
    /\ once = None
    /\ twice = None
    /\ rw = "in"
    /\ image = kPlex
    /\ Idle
    /\ Installed
    /\ GenerateOff
    /\ RuntimeOff
    /\ ExtractOff
    /\ EnsureOff

\* docker_compose_yml = rewrite_volume_paths(docker_compose_yml, image_name)
RewriteOnce ==
    /\ rw = "in"
    /\ once' = rewrite_volume_paths(m, s)
    /\ rw' = "once"
    /\ UNCHANGED <<m, s, twice>>
    /\ UNCHANGED <<wvars, xvars, evars, tvars, gvars>>

\* the same call on the text the first call returned
RewriteTwice ==
    /\ rw = "once"
    /\ twice' = rewrite_volume_paths(once, s)
    /\ rw' = "twice"
    /\ UNCHANGED <<m, s, once>>
    /\ UNCHANGED <<wvars, xvars, evars, tvars, gvars>>

NextRewrite == RewriteOnce \/ RewriteTwice

SpecRewrite == InitRewrite /\ [][NextRewrite]_vars

\* ------------------------------------------- the manifest, entry by entry

LinesOf(text) == Split(text, NL)

\* A list item `- host:container...` of the manifest, as the manifest states it.
IsMountEntry(line) ==
    /\ StartsWith(Strip(line, WS), <<"-", " ">>)
    /\ Contains(line, <<":">>)

\* The text of the list item, after the dash.
EntryText(line) == LStrip(Tail(LStrip(line, WS)), WS)

\* What precedes the list item's text.
EntryLead(line) == SubSeq(line, 1, Len(line) - Len(EntryText(line)))

EntryHost(line) == Split(EntryText(line), ":")[1]

\* The entry from its first colon on: `:container[:options]` and what trails it.
EntryAfterHost(line) ==
    SubSeq(EntryText(line), Len(EntryHost(line)) + 1, Len(EntryText(line)))

EntryContainer(line) == Split(Split(EntryText(line), ":")[2], " ")[1]

HasSegment(path) == \E i \in 1..Len(path) : path[i] # "/"

\* The last non-empty segment of a path that has one.
LastSegment(path) ==
    LET b == CHOOSE i \in 1..Len(path) : path[i] # "/" /\ \A j \in (i + 1)..Len(path) : path[j] = "/"
        a == CHOOSE i \in 1..b : /\ \A j \in i..b : path[j] # "/"
                                 /\ (i = 1 \/ path[i - 1] = "/")
    IN  SubSeq(path, a, b)

IsCanonical(host) == StartsWith(host, kDockerRoot)

\* The entry the rewriter is to produce for a mount entry, given the leaf.
CanonicalEntry(line, id, leaf) ==
    EntryLead(line) \o kDockerRoot \o id \o <<"/">> \o leaf \o EntryAfterHost(line)

\* -------------------------------------------------------------- C7 .. C10

\* C7: rewrite_volume_paths is idempotent: rewriting the text a first rewrite
\* returned, with the same service identifier, returns that text again; and a
\* mount entry whose host side is already under ~/Docker/ is not changed.
C7_RewriteIdempotent ==
    /\ rw = "twice" => twice = once
    /\ rw # "in" =>
         \A ml \in {LinesOf(m)} : \A ol \in {LinesOf(once)} :
            /\ Len(ol) = Len(ml)
            /\ \A i \in 1..Len(ml) :
                 (IsMountEntry(ml[i]) /\ IsCanonical(EntryHost(ml[i]))) => ol[i] = ml[i]

\* C7 witness: the first rewrite changed the manifest and the second rewrite of
\* its result has run.
C7_Witness == rw = "twice" /\ once # m /\ twice = once

\* C8 (as claimed): the host side of every compact mount entry whose host side
\* starts with /, ~/, ./ or ../ (and is not already canonical) is rewritten, and
\* an entry is unchanged only when its host side has none of these prefixes.
C8_EveryPathLikeHostRewritten ==
    rw # "in" =>
        \A ml \in {LinesOf(m)} : \A ol \in {LinesOf(once)} :
           /\ Len(ol) = Len(ml)
           /\ \A i \in 1..Len(ml) :
                IsMountEntry(ml[i]) =>
                   ((/\ extract_host_path(EntryText(ml[i])) # None
                     /\ ~IsCanonical(EntryHost(ml[i])))
                        <=> ol[i] # ml[i])

kDataTv == <<"/", "d", "a", "t", "a", "/", "t", "v">>
kDataTvshows == <<"/", "d", "a", "t", "a", "/", "t", "v", "s", "h", "o", "w", "s">>

\* C9: every rewritten mount entry host:container[:options] becomes
\* ~/Docker/<s>/<leaf>:container[:options], leaf the last non-empty segment of
\* the container path, everything from the first colon on unchanged; and
\* /data/tv:/data/tvshows with s = jellyfin gets host ~/Docker/jellyfin/tvshows.
C9_CanonicalEntry ==
    (rw # "in" /\ s # None) =>
        \A ml \in {LinesOf(m)} : \A ol \in {LinesOf(once)} :
           /\ Len(ol) = Len(ml)
           /\ \A i \in 1..Len(ml) :
                ol[i] # ml[i] =>
                   /\ IsMountEntry(ml[i])
                   /\ EntryLead(ol[i]) = EntryLead(ml[i])
                   /\ StartsWith(EntryHost(ol[i]), kDockerRoot \o s \o <<"/">>)
                   /\ EntryAfterHost(ol[i]) = EntryAfterHost(ml[i])
                   /\ HasSegment(EntryContainer(ml[i]))
                        => ol[i] = CanonicalEntry(ml[i], s, LastSegment(EntryContainer(ml[i])))
           /\ \A i \in 1..Len(ml) : \A o \in Options :
                (s = kJellyfin /\ ml[i] = MountLine(kDataTv, kDataTvshows, o))
                    => EntryHost(ol[i])
                         = kDockerRoot \o kJellyfin \o <<"/", "t", "v", "s", "h", "o", "w", "s">>

\* C9 witness: /data/tv:/data/tvshows:ro was rewritten for jellyfin.
C9_Witness ==
    /\ rw # "in"
    /\ s = kJellyfin
    /\ \E i \in 1..Len(LinesOf(m)) :
         /\ LinesOf(m)[i] = MountLine(kDataTv, kDataTvshows, <<":", "r", "o">>)
         /\ LinesOf(once)[i] # LinesOf(m)[i]

\* C10 (as claimed), for the absolute host sides the rewriter handles: a mount
\* entry whose container path has no non-empty segment (/ or //) is rewritten to
\* host ~/Docker/<s>/data, and one whose container path has a segment gets that
\* segment as its leaf.
C10_LeafFallback ==
    (rw # "in" /\ s # None) =>
        \A ml \in {LinesOf(m)} : \A ol \in {LinesOf(once)} :
           /\ Len(ol) = Len(ml)
           /\ \A i \in 1..Len(ml) :
                (/\ IsMountEntry(ml[i])
                 /\ StartsWith(EntryHost(ml[i]), <<"/">>)
                 /\ Len(EntryHost(ml[i])) > 1)
                    => ol[i] = CanonicalEntry(ml[i], s,
                                   IF HasSegment(EntryContainer(ml[i]))
                                   THEN LastSegment(EntryContainer(ml[i])) ELSE kData)

\* ------------------------------------------------------------------- C11

\* C11: a named-volume mount entry (its host side has none of the path-like
\* prefixes /, ~/, ./, ../, as in mydata:/var/lib/x) is the same line in the
\* output of rewrite_volume_paths, for every manifest and service identifier.
C11_NamedVolumeUnchanged ==
    rw # "in" =>
        \A ml \in {LinesOf(m)} : \A ol \in {LinesOf(once)} :
           /\ Len(ol) = Len(ml)
           /\ \A i \in 1..Len(ml) :
                (IsMountEntry(ml[i]) /\ extract_host_path(EntryText(ml[i])) = None)
                    => ol[i] = ml[i]

\* C11 witness: a manifest with a named-volume entry has been rewritten.
C11_Witness ==
    /\ rw # "in"
    /\ \E i \in 1..Len(LinesOf(m)) :
         /\ IsMountEntry(LinesOf(m)[i])
         /\ EntryHost(LinesOf(m)[i]) = <<"m", "y", "d", "a", "t", "a">>
         /\ LinesOf(once)[i] = LinesOf(m)[i]

\* ------------------------------------------------- SpecFrame: the inputs

MaxFrameMounts == 1

\* Manifest heads, up to the volumes key: the two of SpecRewrite, one whose
\* service key differs from its vendor image, one with a comment under
\* services:, and one without services:.
FrameHeaders ==
    { HeaderVendor,
      HeaderPlain,
      << <<"s", "e", "r", "v", "i", "c", "e", "s", ":">>,
         <<" ", " ", "t", "v", ":">>,
         <<" ", " ", " ", " ", "i", "m", "a", "g", "e", ":", " ", "l", "i", "n", "u", "x", "s", "e", "r", "v", "e", "r", "/", "s", "o", "n", "a", "r", "r">>,
         <<" ", " ", " ", " ", "v", "o", "l", "u", "m", "e", "s", ":">> >>,
      << <<"s", "e", "r", "v", "i", "c", "e", "s", ":">>,
         <<" ", " ", "#", " ", "m", "e", "d", "i", "a">>,
         <<" ", " ", "w", "e", "b", ":">>,
         <<" ", " ", " ", " ", "i", "m", "a", "g", "e", ":", " ", "n", "g", "i", "n", "x">>,
         <<" ", " ", " ", " ", "v", "o", "l", "u", "m", "e", "s", ":">> >>,
      << <<"w", "e", "b", ":">>,
         <<" ", " ", "i", "m", "a", "g", "e", ":", " ", "n", "g", "i", "n", "x">>,
         <<" ", " ", "v", "o", "l", "u", "m", "e", "s", ":">> >> }

\* A head, the mount entries, and the other fields of the service.
FrameManifests ==
    LET mounts == { MountLine(<<"/", "d", "a", "t", "a", "/", "t", "v">>, <<"/", "d", "a", "t", "a", "/", "t", "v", "s", "h", "o", "w", "s">>, <<>>),
                    MountLine(<<"/", "s", "r", "v", "/", "c", "f", "g">>, <<"/", "c", "o", "n", "f", "i", "g">>, <<":", "r", "o">>),
                    MountLine(<<"m", "y", "d", "a", "t", "a">>, <<"/", "v", "a", "r", "/", "l", "i", "b", "/", "x">>, <<>>) }
        seqs == UNION { [1..k -> mounts] : k \in 0..MaxFrameMounts }
        ports == << <<" ", " ", " ", " ", "p", "o", "r", "t", "s", ":">>,
                    <<" ", " ", " ", " ", "-", " ", "8", "0", "9", "6", ":", "8", "0", "9", "6">>,
                    <<" ", " ", " ", " ", "r", "e", "s", "t", "a", "r", "t", ":", " ", "u", "n", "l", "e", "s", "s", "-", "s", "t", "o", "p", "p", "e", "d">> >>
        environment == << <<" ", " ", " ", " ", "e", "n", "v", "i", "r", "o", "n", "m", "e", "n", "t", ":">>,
                          <<" ", " ", " ", " ", "-", " ", "P", "U", "I", "D", "=", "1", "0", "0", "0">>,
                          <<" ", " ", " ", " ", "-", " ", "T", "Z", "=", "E", "t", "c", "/", "U", "T", "C">> >>
        devices == << <<" ", " ", " ", " ", "d", "e", "v", "i", "c", "e", "s", ":">>,
                      <<" ", " ", " ", " ", "-", " ", "/", "d", "e", "v", "/", "d", "r", "i", ":", "/", "d", "e", "v", "/", "d", "r", "i">> >>
        tails == { <<>>, ports, environment, devices, devices \o ports }
    IN  { Join(h \o ms \o t, NL) : h \in FrameHeaders, ms \in seqs, t \in tails }

\* ------------------------------------------------- SpecFrame: the driver

InitFrame ==
    /\ m \in FrameManifests
    /\ s \in ServiceIds
    /\ once = None
    /\ twice = None
    /\ rw = "in"
    /\ image = kPlex
    /\ Idle
    /\ Installed
    /\ GenerateOff
    /\ RuntimeOff
    /\ ExtractOff
    /\ EnsureOff

SpecFrame == InitFrame /\ [][NextRewrite]_vars

\* ------------------------------------------------------------- C12 .. C13

\* The line is an item of a list whose key is `volumes:`.
UnderVolumes(lines, i) ==
    LET keys == {j \in 1..(i - 1) :
                    /\ Strip(lines[j], WS) # <<>>
                    /\ ~StartsWith(Strip(lines[j], WS), <<"-">>)}
    IN  /\ keys # {}
        /\ Strip(lines[CHOOSE j \in keys : \A k \in keys : k <= j], WS) = kVolumes

\* C12 (as claimed): rewrite_volume_paths changes only mount entries under a
\* service's volumes list; every other line (image, ports, environment, restart
\* policy, path:path items under other keys such as devices) is unchanged, and
\* the number and order of the lines are preserved.
C12_OnlyVolumeEntriesChange ==
    rw # "in" =>
        \A ml \in {LinesOf(m)} : \A ol \in {LinesOf(once)} :
           /\ Len(ol) = Len(ml)
           /\ \A i \in 1..Len(ml) :
                ol[i] # ml[i] => (IsMountEntry(ml[i]) /\ UnderVolumes(ml, i))

\* The first key under `services:`, skipping blank lines and comments; <<>>
\* when the manifest has none.
FirstServiceKey(lines) ==
    LET sv == {i \in 1..Len(lines) : Strip(lines[i], WS) = kServices}
        a == CHOOSE i \in sv : \A j \in sv : i <= j
        under == {j \in (a + 1)..Len(lines) :
                    /\ Strip(lines[j], WS) # <<>>
                    /\ ~StartsWith(Strip(lines[j], WS), <<"#">>)}
        b == CHOOSE j \in under : \A k \in under : j <= k
    IN  IF sv = {} \/ under = {} THEN <<>>
        ELSE IF Contains(lines[b], <<":">>) THEN Strip(Split(lines[b], ":")[1], WS)
        ELSE <<>>

\* The name after the vendor namespace in the first vendor image reference;
\* <<>> when the manifest has none.
VendorName(text) ==
    LET hits == {i \in 1..Len(text) : image_match_at(text, i) # <<>>}
    IN  IF hits = {} THEN <<>>
        ELSE image_match_at(text, CHOOSE i \in hits : \A j \in hits : i <= j)

\* The identifier the canonical paths are to carry.
IdentifierFor(text, id) ==
    IF id # None THEN id
    ELSE IF VendorName(text) # <<>> THEN VendorName(text)
    ELSE IF FirstServiceKey(LinesOf(text)) # <<>> THEN FirstServiceKey(LinesOf(text))
    ELSE kApp

\* C13 (as claimed): the identifier in the canonical paths is the one passed;
\* when none is passed it is the name after the vendor namespace in the first
\* vendor image reference, else the first service key under `services:`, else
\* the literal `app`.
C13_IdentifierPriority ==
    rw # "in" =>
        \A ml \in {LinesOf(m)} : \A ol \in {LinesOf(once)} : \A id \in {IdentifierFor(m, s)} :
           /\ Len(ol) = Len(ml)
           /\ \A i \in 1..Len(ml) :
                ol[i] # ml[i] => StartsWith(EntryHost(ol[i]), kDockerRoot \o id \o <<"/">>)

\* ------------------------------------------------------------------- C14

\* A service identifier lower-cased, its docker- prefix removed.
NormalId(id) ==
    LET lowered == Lower(id)
    IN  IF StartsWith(lowered, kDockerDash)
        THEN SubSeq(lowered, Len(kDockerDash) + 1, Len(lowered))
        ELSE lowered

\* The identifiers the workflows of this installation name things after.
NormalIds == { NormalId(image), NormalId(kProwlarr) }

\* C14 (as claimed): the manifest directory ~/Docker/<id>, the proxy config
\* file <id>.<domain> and the DNS record name <id>.<domain> all carry the
\* service identifier lower-cased and without its docker- prefix.
C14_NormalizedNames ==
    /\ \A p \in DOMAIN files :
         \E id \in NormalIds :
            p = PathJoin(PathJoin(PathJoin(kHome, kDocker), id), kComposeFile)
    /\ \A f \in DOMAIN sites_available :
         \E id \in NormalIds : f = id \o <<".">> \o kDomain
    /\ \A r \in dns_records :
         \E id \in NormalIds : r.name = id \o <<".">> \o kDomain

\* ------------------------------------------------ SpecExtract: the inputs

\* The service_name values: none, the service of the page, another service.
Hints == { None, kPlex, <<"w", "e", "b">> }

\* Documentation pages: what precedes the manifest, the manifest text, how the
\* page marks it up, and what follows it.
Documents ==
    LET before == { <<>>,
                    <<"<", "p", ">", "i", "n", "t", "r", "o", "<", "/", "p", ">", "\n">>,
                    <<"-", "-", "-", "\n">>,
                    <<"<", "c", "o", "d", "e", ">", "d", "o", "c", "k", "e", "r", " ", "r", "u", "n", "<", "/", "c", "o", "d", "e", ">", "\n", "-", "-", "-", "\n">> }
        bodies == { <<"s", "e", "r", "v", "i", "c", "e", "s", ":", "\n", " ", " ", "p", "l", "e", "x", ":", "\n", " ", " ", " ", " ", "i", "m", "a", "g", "e", ":", " ", "l", "s", "c", "r", ".", "i", "o", "/", "l", "i", "n", "u", "x", "s", "e", "r", "v", "e", "r", "/", "p", "l", "e", "x", "\n", " ", " ", " ", " ", "e", "n", "v", "i", "r", "o", "n", "m", "e", "n", "t", ":", "\n", " ", " ", " ", " ", " ", " ", "-", " ", "A", "=", "&", "l", "t", ";", "b", "&", "g", "t", ";", "\n">>,
                    <<"s", "e", "r", "v", "i", "c", "e", "s", ":", "\n", " ", " ", "p", "l", "e", "x", ":", "\n", " ", " ", " ", " ", "i", "m", "a", "g", "e", ":", " ", "l", "s", "c", "r", ".", "i", "o", "/", "l", "i", "n", "u", "x", "s", "e", "r", "v", "e", "r", "/", "p", "l", "e", "x", "\n", " ", " ", " ", " ", "<", "b", ">", "p", "o", "r", "t", "s", "<", "/", "b", ">", ":", " ", "&", "a", "m", "p", ";", "l", "t", ";", "\n">>,
                    <<"s", "e", "r", "v", "i", "c", "e", "s", ":", "\n", " ", " ", "w", "e", "b", ":", "\n", " ", " ", " ", " ", "i", "m", "a", "g", "e", ":", " ", "n", "g", "i", "n", "x", "\n">>,
                    <<"s", "e", "r", "v", "i", "c", "e", "s", ":", " ", "w", "e", "b">>,
                    <<"S", "e", "r", "v", "i", "c", "e", "s", ":", "\n", " ", " ", "p", "l", "e", "x", ":", "\n", " ", " ", " ", " ", "x", ":", " ", "y", "\n">>,
                    <<"m", "o", "v", "e", "d">> }
        marked == UNION { { b,
                            kPre \o b \o kPreEnd,
                            kCode \o b \o kCodeEnd,
                            kPre \o kCode \o b \o kCodeEnd \o kPreEnd } : b \in bodies }
        after == { <<>>,
                   <<"\n", "P", "a", "r", "a", "m", "e", "t", "e", "r", "s", "\n", "r", "e", "s", "t">>,
                   <<"\n", "<", "p", "r", "e", ">", "s", "e", "r", "v", "i", "c", "e", "s", ":", "\n", " ", " ", "b", ":", "\n", " ", " ", " ", " ", "i", "m", "a", "g", "e", ":", " ", "l", "i", "n", "u", "x", "s", "e", "r", "v", "e", "r", "/", "b", "<", "/", "p", "r", "e", ">">> }
    IN  { a \o b \o c : a \in before, b \in marked, c \in after }

\* ------------------------------------------------ SpecExtract: the driver

InitExtract ==
    /\ document \in Documents
    /\ hint \in Hints
    /\ extracted = None
    /\ cleaned_compose = None
    /\ xp = "in"
    /\ m = None /\ s = None /\ once = None /\ twice = None /\ rw = "off"
    /\ image = kPlex
    /\ Idle
    /\ Installed
    /\ GenerateOff
    /\ RuntimeOff
    /\ EnsureOff

\* compose_text = extract_docker_compose(html_content, service_name)
ExtractCompose ==
    /\ xp = "in"
    /\ extracted' = extract_docker_compose(document, hint)
    /\ xp' = "extracted"
    /\ UNCHANGED <<document, hint, cleaned_compose>>
    /\ UNCHANGED <<m, s, once, twice, rw, wvars, evars, tvars, gvars>>

\* get_docker_compose from there on: None for no text, else the cleaned text
CleanCompose ==
    /\ xp = "extracted"
    /\ cleaned_compose' = IF extracted = None \/ extracted = <<>>
                          THEN None
                          ELSE clean_docker_compose(extracted)
    /\ xp' = "cleaned"
    /\ UNCHANGED <<document, hint, extracted>>
    /\ UNCHANGED <<m, s, once, twice, rw, wvars, evars, tvars, gvars>>

NextExtract == ExtractCompose \/ CleanCompose

SpecExtract == InitExtract /\ [][NextExtract]_vars

\* ------------------------------------------------------------- C15 .. C18

\* A code region whose text has `services:` and the vendor image marker.
Qualifies(text) == Contains(text, kServices) /\ Contains(text, kLinuxserver)

\* The code regions of the document that qualify, by their index.
QualifyingBlocks(blocks) == {b \in 1..Len(blocks) : Qualifies(blocks[b])}

\* C15: whenever the document has a code block with both `services:` and the
\* vendor image marker, extract_docker_compose returns the text of the first
\* such block (without surrounding whitespace), also when the regex strategies
\* would match.
C15_FirstBlockPreferred ==
    xp # "in" =>
        \A blocks \in {code_blocks(document)} : \A q \in {QualifyingBlocks(blocks)} :
           q # {} => extracted = Strip(blocks[CHOOSE b \in q : \A c \in q : b <= c], WS)

\* C15 witness: a document with such a block for which the ---block strategy
\* matches too, with another text, has been extracted from.
C15_Witness ==
    /\ xp # "in"
    /\ QualifyingBlocks(code_blocks(document)) # {}
    /\ dashes_match(document, hint) # None
    /\ dashes_match(document, hint) # extracted

\* C16 (as claimed): with a hint, when no code block qualifies and the hinted
\* ---block strategy yields nothing, the result is that of the ---block
\* strategy without the hint whenever that one matches.
C16_UnhintedAfterHinted ==
    (/\ xp # "in"
     /\ hint # None
     /\ QualifyingBlocks(code_blocks(document)) = {}
     /\ dashes_match(document, hint) = None
     /\ dashes_match(document, None) # None)
        => extracted = dashes_match(document, None)

\* C17 (as claimed): the result is None exactly when none of the strategies
\* matches (code block, ---block with the hint, ---block without it, bare
\* services: regex), and every other result is non-empty text that contains
\* `services:`.
C17_NotFoundExactly ==
    xp # "in" =>
        /\ extracted = None <=>
              /\ QualifyingBlocks(code_blocks(document)) = {}
              /\ hint # None => dashes_match(document, hint) = None
              /\ dashes_match(document, None) = None
              /\ services_match(document) = None
        /\ extracted # None => (extracted # <<>> /\ Contains(extracted, kServices))

\* A markup tag <...> in a line.
HasTag(line) ==
    \E i \in 1..Len(line) : \E j \in (i + 2)..Len(line) :
        /\ line[i] = "<"
        /\ line[j] = ">"
        /\ \A k \in (i + 1)..(j - 1) : line[k] # ">"

\* C18: the text get_docker_compose returns, whichever strategy produced it,
\* is the extracted text with &lt; &gt; &amp; decoded and the tags of every
\* line removed, and no line of it contains a markup tag <...>.
C18_Sanitized ==
    (xp = "cleaned" /\ cleaned_compose # None) =>
        \A before \in {LinesOf(decode_entities(extracted))} : \A cl \in {LinesOf(cleaned_compose)} :
           /\ Len(cl) = Len(before)
           /\ \A i \in 1..Len(cl) : cl[i] = strip_tags(before[i]) /\ ~HasTag(cl[i])

\* C18 witness: a text with an entity and a tag has been sanitized.
C18_Witness ==
    /\ xp = "cleaned"
    /\ cleaned_compose # None
    /\ Contains(extracted, kAmp)
    /\ \E i \in 1..Len(LinesOf(extracted)) : HasTag(LinesOf(extracted)[i])

\* ------------------------------------------------- SpecEnsure: the inputs

MaxEntries == 2

\* Manifests of two services, a and b, with up to MaxEntries mount entries,
\* the first `first` of them under a and the others under b. The host sides:
\* nested directories, a path that may be a file, a path under the home
\* directory, a relative path, a named volume.
EnsureManifests ==
    LET hosts == { <<"/", "s", "r", "v", "/", "a">>, <<"/", "s", "r", "v", "/", "a", "/", "b">>, <<"/", "s", "r", "v", "/", "f">>, <<"~", "/", "D", "o", "c", "k", "e", "r", "/", "p", "l", "e", "x", "/", "c", "o", "n", "f", "i", "g">>, <<".", ".", "/", "x">>, <<"m", "y", "d", "a", "t", "a">> }
        item(h) == <<" ", " ", " ", " ", " ", " ", "-", " ">> \o h \o <<":", "/", "c">>
        list(entries, from, to) ==
            IF from > to THEN <<>>
            ELSE << <<" ", " ", " ", " ", "v", "o", "l", "u", "m", "e", "s", ":">> >> \o [i \in 1..(to - from + 1) |-> item(entries[from + i - 1])]
        manifest(entries, first) ==
            Join(<< <<"s", "e", "r", "v", "i", "c", "e", "s", ":">>, <<" ", " ", "a", ":">>, <<" ", " ", " ", " ", "i", "m", "a", "g", "e", ":", " ", "x">> >> \o list(entries, 1, first)
                     \o << <<" ", " ", "b", ":">>, <<" ", " ", " ", " ", "i", "m", "a", "g", "e", ":", " ", "y">> >> \o list(entries, first + 1, Len(entries)), NL)
    IN  UNION { { manifest(e, k) : k \in 0..Len(e) } :
                    e \in UNION { [1..n -> hosts] : n \in 0..MaxEntries } }

\* ------------------------------------------------- SpecEnsure: the driver

\* The directories that exist before the call are the working directory and
\* /srv, with or without some of the directories the entries name; /srv/f may
\* exist as a file.
InitEnsure ==
    /\ yml \in EnsureManifests
    /\ present \in LET base == Ancestors(kCwd) \cup { <<"/", "s", "r", "v">> }
                   IN  { base,
                         base \cup Ancestors(<<"/", "s", "r", "v", "/", "a">>)
                              \cup Ancestors(kHome \o <<"/", "D", "o", "c", "k", "e", "r", "/", "p", "l", "e", "x", "/", "c", "o", "n", "f", "i", "g">>) }
    /\ occupied \in { {}, { <<"/", "s", "r", "v", "/", "f">> } }
    /\ refused \in SUBSET (1..Len(volumes_from(Split(yml, NL), 1, FALSE)))
    /\ hidden \in SUBSET (1..Len(volumes_from(Split(yml, NL), 1, FALSE)))
    /\ ensured = None
    /\ ep = "in"
    /\ m = None /\ s = None /\ once = None /\ twice = None /\ rw = "off"
    /\ image = kPlex
    /\ Idle
    /\ Installed
    /\ GenerateOff
    /\ RuntimeOff
    /\ ExtractOff

\* df.ensure_docker_directories(docker_compose_yml)
EnsureCall ==
    /\ ep = "in"
    /\ ensured' = ensure_docker_directories(yml, present, occupied, refused, hidden)
    /\ ep' = "done"
    /\ UNCHANGED <<yml, present, occupied, refused, hidden>>
    /\ UNCHANGED <<m, s, once, twice, rw, wvars, xvars, tvars, gvars>>

NextEnsure == EnsureCall

SpecEnsure == InitEnsure /\ [][NextEnsure]_vars

\* ------------------------------------------------------------- C19 .. C20

\* The mount entries of the manifest, in document order.
EnsureEntries == volumes_from(Split(yml, NL), 1, FALSE)

\* The entry has a path-like host side.
IsBind(entry) == extract_host_path(entry) # None

\* The path ensure_docker_directories reports for the entry, and the directory
\* that path names.
ReportedPath(entry) == absolute(expanduser(extract_host_path(entry)))

DirectoryOf(entry) == realpath(ReportedPath(entry))

\* The entry's directory is, or lies under, a path that exists as a file.
Obstructed(entry) == Ancestors(DirectoryOf(entry)) \cap occupied # {}

\* C19 (as claimed), for calls in which no entry meets a problem: the call
\* creates exactly the path-like host directories that were absent (with the
\* directories above them) and returns exactly those, each once, whatever the
\* order of the entries; directories that existed are not listed; every listed
\* path is a directory afterwards.
C19_ExactlyAbsentListed ==
    \A es \in {EnsureEntries} :
       (/\ ep = "done"
        /\ refused = {}
        /\ hidden = {}
        /\ \A i \in 1..Len(es) : IsBind(es[i]) => ~Obstructed(es[i]))
          => \A absent \in {{DirectoryOf(es[i]) : i \in {j \in 1..Len(es) : IsBind(es[j])}} \ present} :
                /\ ensured.created # None
                /\ {realpath(ensured.created[k]) : k \in 1..Len(ensured.created)} = absent
                /\ Len(ensured.created) = Cardinality(absent)
                /\ ensured.dirs = present \cup UNION {Ancestors(d) : d \in absent}

\* The entry's directory cannot be made: mkdir or exists() is refused for it,
\* or a file is in the way.
Fails(es, i) == IsBind(es[i]) /\ (i \in refused \/ i \in hidden \/ Obstructed(es[i]))

\* C20 (as claimed): a per-entry problem never aborts the call: a list is
\* returned, the directory of every entry without a problem exists afterwards,
\* and every listed path is that of an entry without a problem.
C20_PerEntryNonFatal ==
    \A es \in {EnsureEntries} :
       ep = "done" =>
          /\ ensured.created # None
          /\ \A i \in 1..Len(es) :
                (IsBind(es[i]) /\ ~Fails(es, i)) => DirectoryOf(es[i]) \in ensured.dirs
          /\ \A k \in 1..Len(ensured.created) :
                \E i \in 1..Len(es) :
                    IsBind(es[i]) /\ ~Fails(es, i) /\ ReportedPath(es[i]) = ensured.created[k]

\* ------------------------------------------------------------------- C21

\* The manifest file of the service the program is run for.
ManifestPath == PathJoin(PathJoin(PathJoin(kHome, kDocker), image), kComposeFile)

\* C21: create_docker_compose_file returns (it never raises), and it returns
\* success only if ~/Docker/<serviceIdentifier>/docker-compose.yml then exists,
\* in an existing directory, with exactly the manifest text it was given; when
\* the directory cannot be made or the write does not complete it returns
\* failure.
C21_PersistedVerbatim ==
    pc = "up" =>
        /\ ret = <<"running">>
        /\ log[Len(log)].stage = "persist"
        /\ log[Len(log)].ok =>
               /\ docker_compose_yml # None
               /\ PathJoin(PathJoin(kHome, kDocker), image) \in dirs
               /\ ManifestPath \in DOMAIN files
               /\ files[ManifestPath] = docker_compose_yml

\* C21 witness: the manifest of a second run has been persisted successfully
\* over the file of the first.
C21_Witness ==
    /\ pc = "up"
    /\ runs = 2
    /\ log[Len(log)].ok
    /\ files[ManifestPath] = docker_compose_yml

\* ------------------------------------------------------------ SpecRuntime

\* InitRuntime: the service directory is absent, or present with any of the
\* recognized manifest files and of other files in it.
InitRuntime ==
    /\ image \in ImageNames
    /\ \E there \in BOOLEAN :
         \E names \in SUBSET (compose_files \cup { <<"n", "o", "t", "e", "s", ".", "t", "x", "t">> }) :
            LET compose_dir == PathJoin(PathJoin(kHome, kDocker), image)
            IN  /\ dirs = IF there THEN Ancestors(kCwd) \cup Ancestors(compose_dir)
                          ELSE Ancestors(kCwd)
                /\ files = [p \in {PathJoin(compose_dir, n) : n \in IF there THEN names ELSE {}}
                               |-> <<"s", "e", "r", "v", "i", "c", "e", "s", ":">>]
    /\ sites_available = <<>>
    /\ sites_enabled = {}
    /\ tmp_files = {}
    /\ dns_records = {}
    /\ docker_up = {}
    /\ Idle
    /\ op = "none"
    /\ invoked = FALSE
    /\ returned = FALSE
    /\ m = None /\ s = None /\ once = None /\ twice = None /\ rw = "off"
    /\ ExtractOff
    /\ EnsureOff
    /\ GenerateOff

\* One call of a container-runtime operation: run_ok is whether docker compose,
\* once run, exits with status 0.
RuntimeCall(operation, runs_compose, run_ok) ==
    /\ op = "none"
    /\ op' = operation
    /\ invoked' = runs_compose
    /\ returned' = (runs_compose /\ run_ok)
    /\ docker_up' = IF operation = "down" THEN (IF runs_compose /\ run_ok THEN {} ELSE docker_up)
                    ELSE (IF runs_compose /\ run_ok THEN docker_up \cup {image} ELSE docker_up)
    /\ UNCHANGED <<image, wf, pc, runs, completed, log, ret, ipaddress, cloudflare_api_key, html,
                   docker_compose_yml, created, nginx_config, requests, dirs, files,
                   sites_available, sites_enabled, tmp_files, sudo_log, dns_records>>
    /\ UNCHANGED <<m, s, once, twice, rw, xvars, evars, gvars>>

\* run_docker_compose(image_name)
RunUp == \E run_ok \in BOOLEAN : RuntimeCall("up", compose_invoked(image, dirs, files), run_ok)

\* run_docker_compose_with_options(image_name, extra_args)
RunUpWithOptions ==
    \E run_ok \in BOOLEAN : RuntimeCall("up_with_options", options_invoked(image, dirs), run_ok)

\* stop_docker_compose(image_name)
StopDown == \E run_ok \in BOOLEAN : RuntimeCall("down", stop_invoked(image, dirs), run_ok)

NextRuntime == RunUp \/ RunUpWithOptions \/ StopDown

SpecRuntime == InitRuntime /\ [][NextRuntime]_vars

\* ------------------------------------------------------------------- C22

\* The service directory holds a manifest file under a recognized filename.
HasManifest ==
    \E n \in compose_files : PathJoin(PathJoin(PathJoin(kHome, kDocker), image), n) \in DOMAIN files

\* C22 (as claimed): up (run_docker_compose, run_docker_compose_with_options)
\* and down (stop_docker_compose) run docker compose only when the service
\* directory holds a manifest file under a recognized filename, and return
\* failure otherwise.
C22_RuntimeNeedsManifest ==
    (op # "none" /\ ~HasManifest) => (~invoked /\ ~returned)

\* ---------------------------------------------------------------- C23
\* The site file name of the running workflow, <serviceId>.<domain>.
Site == site_filename(image, kDomain)

Ran(command) == \E i \in 1..Len(sudo_log) : sudo_log[i] = command

\* C23: setup_nginx enables a site idempotently. A call made while the site
\* <serviceId>.<domain> is already enabled runs no symlink command, leaves the
\* enabled entries as they are (the one entry of the site), fails only when the
\* config was not installed, and on success the installed config is the latest
\* config text.
C23_IdempotentEnable ==
    [][(pc = "nginx" /\ Site \in sites_enabled) =>
           /\ \A i \in 1..Len(sudo_log') : sudo_log'[i] # "ln"
           /\ sites_enabled' = sites_enabled
           /\ log'[Len(log')].ok =>
                  /\ Site \in DOMAIN sites_available'
                  /\ sites_available'[Site] = nginx_config
           /\ ~log'[Len(log')].ok => sites_available' = sites_available]_vars

\* a second call for a site the first call enabled: only the copy ran, and the
\* call succeeded with the new text installed
C23_Witness ==
    /\ runs = 2
    /\ pc = "reload"
    /\ log[Len(log)].ok
    /\ Site \in sites_enabled
    /\ sudo_log = <<"cp">>
    /\ sites_available[Site] = nginx_config

\* ------------------------------------------------ generate_nginx_config
\* SpecGenerate: the extraction of generate_nginx_config applied to responses
\* with and without fenced blocks and server blocks.

\* response_text = message.content[0].text: an introduction, a first part (a
\* fenced block tagged nginx, untagged or tagged bash, a bare server block, a
\* server block with a location block inside, or a bare directive), possibly a
\* second fenced block or server block, and a closing line.
GenerateResponses ==
    LET intro == { <<>>, <<"o", "k", "\n">>, <<" ">> }
        first == { <<Backquote, Backquote, Backquote, "n", "g", "i", "n", "x", "\n", "s", "e", "r", "v", "e", "r", " ", "{", "a", "}", "\n", Backquote, Backquote, Backquote>>, <<Backquote, Backquote, Backquote, "\n", "s", "e", "r", "v", "e", "r", " ", "{", "a", "}", "\n", Backquote, Backquote, Backquote>>,
                   <<Backquote, Backquote, Backquote, "b", "a", "s", "h", "\n", "s", "e", "r", "v", "e", "r", " ", "{", "a", "}", "\n", Backquote, Backquote, Backquote>>, <<"s", "e", "r", "v", "e", "r", " ", "{", "a", "}">>,
                   <<"s", "e", "r", "v", "e", "r", " ", "{", "\n", "l", "o", "c", "a", "t", "i", "o", "n", " ", "/", " ", "{", "p", "}", "\n", "}">>, <<"l", "i", "s", "t", "e", "n", " ", "8", "0", ";">> }
        second == { <<>>, <<"\n", Backquote, Backquote, Backquote, "c", "o", "n", "f", "\n", "s", "e", "r", "v", "e", "r", " ", "{", "c", "}", "\n", Backquote, Backquote, Backquote>>, <<"\n", "s", "e", "r", "v", "e", "r", " ", "{", "d", "}">> }
        outro == { <<>>, <<"\n", "e", "n", "d">> }
    IN  { i \o f \o x \o o : i \in intro, f \in first, x \in second, o \in outro }

InitGenerate ==
    /\ reply \in GenerateResponses
    /\ config = None
    /\ gp = "ready"
    /\ m = None /\ s = None /\ once = None /\ twice = None /\ rw = "off"
    /\ image = kPlex
    /\ Idle
    /\ Installed
    /\ ExtractOff
    /\ EnsureOff
    /\ RuntimeOff

\* lines 43-61 of generate_nginx_config
GenerateCall ==
    /\ gp = "ready"
    /\ config' = generate_nginx_config(reply)
    /\ gp' = "done"
    /\ UNCHANGED reply
    /\ UNCHANGED <<m, s, once, twice, rw, wvars, xvars, evars, tvars>>

NextGenerate == GenerateCall

SpecGenerate == InitGenerate /\ [][NextGenerate]_vars

\* ---------------------------------------------------------------- C24
\* The first fenced code block of a text: from the first fence, whose line may
\* carry a language tag, to the next fence; its content is what lies between
\* the end of the opening line and the closing fence.
FencedBlock(text) ==
    LET open == FirstAt(text, 1, kFence)
        eol == IF open = 0 THEN 0 ELSE FirstAt(text, open + 3, <<NL>>)
        close == IF eol = 0 THEN 0 ELSE FirstAt(text, eol + 1, kFence)
    IN  IF close = 0 THEN [found |-> FALSE, text |-> <<>>]
        ELSE [found |-> TRUE, text |-> SubSeq(text, eol + 1, close - 1)]

\* The index of the brace closing the block entered depth levels deep before
\* index i; 0 when the text ends first.
RECURSIVE ClosingBrace(_, _, _)
ClosingBrace(text, i, depth) ==
    IF i > Len(text) THEN 0
    ELSE IF text[i] = "}" THEN (IF depth = 1 THEN i ELSE ClosingBrace(text, i + 1, depth - 1))
    ELSE IF text[i] = "{" THEN ClosingBrace(text, i + 1, depth + 1)
    ELSE ClosingBrace(text, i + 1, depth)

\* The first brace-delimited server block of a text: `server`, its opening
\* brace and everything up to the brace that closes it.
ServerBlock(text) ==
    LET brace(i) == i + Len(kServer) + SpanLen(text, i + Len(kServer), WS)
        hits == {i \in 1..Len(text) :
                    /\ At(text, i, kServer)
                    /\ At(text, brace(i), <<"{">>)
                    /\ ClosingBrace(text, brace(i) + 1, 1) # 0}
        i0 == CHOOSE i \in hits : \A j \in hits : i <= j
    IN  IF hits = {} THEN [found |-> FALSE, text |-> <<>>]
        ELSE [found |-> TRUE, text |-> SubSeq(text, i0, ClosingBrace(text, brace(i0) + 1, 1))]

\* C24: generate_nginx_config returns the content of the first fenced code
\* block of the response when there is one; else the first brace-delimited
\* server block when there is one; else the response text (surrounding white
\* space aside in each case).
C24_ExtractionPriority ==
    gp = "done" =>
        config = IF FencedBlock(reply).found THEN Strip(FencedBlock(reply).text, WS)
                 ELSE IF ServerBlock(reply).found THEN Strip(ServerBlock(reply).text, WS)
                 ELSE Strip(reply, WS)

\* ---------------------------------------------------------------- C25
\* The stages that end by themselves once reached: they run local code or a
\* subprocess of the machine.
LocalStages ==
    {"extract", "rewrite", "ensure", "persist", "up", "nameerror", "generate", "nginx",
     "reload", "certbot"}

Positions == LocalStages \cup {"idle", "fetch", "dns", "done"}

\* A step of Extract, Rewrite, EnsureDirs, Persist, Up, DefaultNameError,
\* Generate, Nginx, Reload or Certbot: each is enabled whenever the workflow is
\* at its stage and moves the workflow to another position.
LocalStage == pc \in LocalStages /\ pc' \in Positions \ {pc}

\* The workflows with their scheduling: a local stage in progress ends.
\* fetch_page_with_curl runs curl without --max-time and subprocess.run without
\* timeout (dockerFunc.py:42-48), and make_request calls urllib.request.urlopen
\* without timeout (cloudflare.py:83): Fetch and Dns end only when the remote
\* side answers or drops the connection, so nothing makes them fair.
SpecLive == Init /\ [][Next]_vars /\ WF_pc(LocalStage)

\* C25: a workflow that reached the document fetch or the DNS calls eventually
\* terminates, whatever the remote side does.
C25_FetchAndDnsTerminate == (pc \in {"fetch", "dns"}) ~> (pc = "done")

\* ---------------------------------------------------------------- C26
\* The running workflow has no manifest: its fetch or its extraction failed.
NoManifest ==
    \E i \in 1..Len(log) : log[i].stage \in {"fetch", "extract"} /\ ~log[i].ok

\* C26: in setup_docker_service, after a failed fetch or an extraction that
\* found nothing, the persist stage leaves every manifest file as it was (none
\* created, overwritten or truncated) and the up stage does not invoke docker
\* compose.
C26_FailureNotCarriedForward ==
    [][(wf = "docker" /\ NoManifest) =>
           /\ pc = "persist" => files' = files
           /\ pc = "up" => ~compose_invoked(image, dirs, files)]_vars

\* ---------------------------------------------------------------- C27
\* The records the zone holds for the subdomain of the running workflow.
SiteRecords(records) == records_named(records, subdomain_of(image, kDomain))

\* C27: create_cloudflare_subdomain never treats a failed lookup as "no
\* record". A call made while the zone holds a record for the subdomain sends
\* no create request, whatever the lookups answer, and leaves the zone with no
\* more records for the subdomain than it had; and a call sends a record
\* lookup, create or update request only after a zone lookup.
C27_FailedLookupNeverCreates ==
    [][pc = "dns" =>
           /\ SiteRecords(dns_records) # {} =>
                  /\ \A i \in 1..Len(requests') : requests'[i].method # "POST"
                  /\ Cardinality(SiteRecords(dns_records')) <= Cardinality(SiteRecords(dns_records))
           /\ \A i \in 1..Len(requests') :
                  requests'[i].resource = "dns_records" =>
                      \E j \in 1..(i - 1) : requests'[j].resource = "zones"]_vars

\* ---------------------------------------------------------------- C28
\* The host paths under ~/Docker/ among the mounts of a manifest.
RewrittenMounts(manifest) ==
    LET volumes == volumes_from(Split(manifest, NL), 1, FALSE)
    IN  { h \in {extract_host_path(volumes[i]) : i \in 1..Len(volumes)} :
              h # None /\ StartsWith(h, kDockerRoot) }

\* C28: within one run of setup_docker_service the service identifier is the
\* same everywhere: every rewritten mount path of the persisted manifest lies
\* in the directory ~/Docker/<name> in which the manifest is persisted and
\* `up` is run.
C28_OneIdentifier ==
    (wf = "docker" /\ pc = "up" /\ log[Len(log)].ok) =>
        \A h \in RewrittenMounts(files[ManifestPath]) :
            StartsWith(h, kDockerRoot \o image \o <<"/">>)

\* ---------------------------------------------------------------- C29
\* C29: run_with_sudo executes the wrapped command at most once per call: in
\* the commands one setup_nginx call executed, the copy appears at most once
\* and the symlink creation at most once.
C29_CommandAtMostOnce ==
    \A command \in {"cp", "ln"} :
        Cardinality({i \in 1..Len(sudo_log) : sudo_log[i] = command}) <= 1

\* ---------------------------------------------------------------- C30
\* C30: after setup_nginx returns, on every path, the temporary file
\* /tmp/<serviceId>.<domain>.nginx.conf that it wrote no longer exists.
C30_TempFileRemoved ==
    (pc = "reload" /\ log[Len(log)].stage = "nginx") =>
        temp_config_path(image, kDomain) \notin tmp_files

====
